---- MODULE Spec2Model ----
(***************************************************************************)
(* Model of the ADE7912/ADE7913 driver: the register codec (register.rs),  *)
(* the single-device engine (ade791x.rs) and the polyphase coordinator     *)
(* (poly.rs).  The driver is single-threaded and blocking; every call on   *)
(* the chip-select pin, the SPI bus and the delay source is one step of    *)
(* the model, so that the order of pin and bus events is observable.       *)
(*                                                                         *)
(* A running coordinator operation is the sequence `todo` of the engine    *)
(* steps that remain: pin and bus calls, and the decisions the code takes  *)
(* on what the bus returned.                                               *)
(***************************************************************************)
EXTENDS Integers, Sequences, FiniteSets, TLC

(***************************************************************************)
(* Bounds of the model.                                                    *)
(***************************************************************************)
\* Largest number N of devices on the bus (the const generic N of poly.rs).
MaxN == 3
\* Calls of wait_reset that find the device still in reset, in one behaviour.
MaxSlow == 1

VARIABLES
    N,            \* number of devices of the coordinator
    chip,         \* chip[i]: variant of device i
    config,       \* config[i]: configuration cached by engine i
    calibration,  \* calibration[i]: aux offset and aux gain cached by engine i
    cs,           \* cs[i]: level last driven on the chip-select pin of device i
    op,           \* the coordinator operation running, or the last one run
    todo,         \* the steps of the running operation still to do
    rx,           \* the bytes the last read transfer returned
    result,       \* "none", "pending" or what the operation returned
    out,          \* the value returned with Ok (drift or measurement array)
    snapshot,     \* snapshot[i]: what get_cnt_snapshot returned for device i
    trace,        \* pin, bus and delay events of the operation, in order
    lastLock,     \* content of the most recent Lock write on the bus, or -1
    history,      \* "none", or what happened to the lock since the last successful init
    slowLeft      \* calls of wait_reset that may still find the device in reset

vars == <<N, chip, config, calibration, cs, op, todo, rx, result, out, snapshot,
          trace, lastLock, history, slowLeft>>

Dev == 0 .. (N - 1)
Byte == 0 .. 255

(***************************************************************************)
(* Bit arithmetic on bytes.                                                *)
(***************************************************************************)
Bit(x, i) == (x \div (2 ^ i)) % 2
B2N(b) == IF b THEN 1 ELSE 0

(***************************************************************************)
(* register.rs: the register codec.                                        *)
(***************************************************************************)
\* A decoder whose catch-all arm falls back to the default frequency
AdcFreqVal_from_default(x) ==
    CASE x % 4 = 0 -> "KHz8"
      [] x % 4 = 1 -> "KHz4"
      [] x % 4 = 2 -> "KHz2"
      [] OTHER     -> "KHz8"

\* impl From<u8> for AdcFreqVal
AdcFreqVal_from(x) ==
    CASE x % 4 = 0 -> "KHz8"
      [] x % 4 = 1 -> "KHz4"
      [] x % 4 = 2 -> "KHz2"
      [] OTHER     -> "KHz1"

\* `adc_freq as u8`: the discriminants of enum AdcFreqVal
AdcFreqVal_u8(f) ==
    CASE f = "KHz8" -> 0
      [] f = "KHz4" -> 1
      [] f = "KHz2" -> 2
      [] OTHER      -> 3

\* impl From<u8> for Config
Config_from(x) ==
    [ clkout_en |-> Bit(x, 0) # 0,
      pwrdwn_en |-> Bit(x, 2) # 0,
      temp_en   |-> Bit(x, 3) # 0,
      adc_freq  |-> AdcFreqVal_from((x \div 16) % 4),
      swrst     |-> Bit(x, 6) # 0,
      bw        |-> Bit(x, 7) # 0 ]

\* An encoder that shifts pwrdwn_en by 1 instead of 2
Config_into_pwrdwn_bit1(c) ==
    B2N(c.bw) * 128 + B2N(c.swrst) * 64 + AdcFreqVal_u8(c.adc_freq) * 16
        + B2N(c.temp_en) * 8 + B2N(c.pwrdwn_en) * 2 + B2N(c.clkout_en)

\* impl From<Config> for u8 (the fields occupy disjoint bits, so | is +)
Config_into(c) ==
    B2N(c.bw) * 128 + B2N(c.swrst) * 64 + AdcFreqVal_u8(c.adc_freq) * 16
        + B2N(c.temp_en) * 8 + B2N(c.pwrdwn_en) * 4 + B2N(c.clkout_en)

\* #[derive(Default)] for Config
Config_default ==
    [ clkout_en |-> FALSE, pwrdwn_en |-> FALSE, temp_en |-> FALSE,
      adc_freq |-> "KHz8", swrst |-> FALSE, bw |-> FALSE ]

\* impl From<u8> for Status0
Status0_from(x) ==
    [ reset_on |-> Bit(x, 0) # 0,
      crc_stat |-> Bit(x, 1) # 0,
      ic_prot  |-> Bit(x, 2) # 0 ]

\* impl From<u8> for EmiCtrl: slot i is bit i
EmiCtrl_from(x) == [ i \in 0 .. 7 |-> Bit(x, i) # 0 ]

\* An encoder that puts slot6 at bit 5 too: slot5 is lost
EmiCtrl_into_slot6_twice(e) ==
    (B2N(e[7]) * 128 + B2N(e[6]) * 64 + B2N(e[6]) * 32 + B2N(e[4]) * 16
        + B2N(e[3]) * 8 + B2N(e[2]) * 4 + B2N(e[1]) * 2 + B2N(e[0])) % 256

\* impl From<EmiCtrl> for u8
EmiCtrl_into(e) ==
    B2N(e[7]) * 128 + B2N(e[6]) * 64 + B2N(e[5]) * 32 + B2N(e[4]) * 16
        + B2N(e[3]) * 8 + B2N(e[2]) * 4 + B2N(e[1]) * 2 + B2N(e[0])

\* impl Default for EmiCtrl
EmiCtrl_default == EmiCtrl_from(255)

\* impl From<SyncSnap> for u8
SyncSnap_into(s) == B2N(s.snap) * 2 + B2N(s.sync)

\* i32::from_be_bytes of four bytes: the signed value of the 32-bit word
\* (byte 0 carries the sign; no intermediate value leaves the i32 range)
I32_from_be_bytes(b0, b1, b2, b3) ==
    (IF b0 >= 128 THEN b0 - 256 ELSE b0) * 16777216 + b1 * 65536 + b2 * 256 + b3

\* `w << 8` on i32: the top byte is shifted out, bit 23 becomes the sign
Shl8(w) ==
    LET l == w % 16777216
    IN  (IF l >= 8388608 THEN l - 16777216 ELSE l) * 256

\* `s >> 8` on i32: arithmetic shift, rounds towards minus infinity
Sar8(s) == (s - (s % 256)) \div 256

\* A logical shift right in place of the arithmetic one
SignExtend24_logical(w) == w % 16777216

\* (w << 8) >> 8
SignExtend24(w) == Sar8(Shl8(w))

\* u16::from_be_bytes
U16_from_be_bytes(b0, b1) == b0 * 256 + b1

\* impl From<[u8; 15]> for BurstRead; x is the frame, x[j + 1] its byte j
BurstRead_from(x) ==
    [ iwv  |-> SignExtend24(I32_from_be_bytes(x[1], x[2], x[3], x[4])),
      v1wv |-> SignExtend24(I32_from_be_bytes(x[4], x[5], x[6], x[7])),
      v2wv |-> SignExtend24(I32_from_be_bytes(x[7], x[8], x[9], x[10])),
      adc_crc |-> U16_from_be_bytes(x[11], x[12]),
      status0 |-> Status0_from(x[13]),
      cnt_snapshot |-> U16_from_be_bytes(x[14], x[15]) ]

\* Register::addr
Register_addr(reg) ==
    CASE reg = "Iwv"         -> 0
      [] reg = "V1wv"        -> 1
      [] reg = "V2wv"        -> 2
      [] reg = "AdcCrc"      -> 4
      [] reg = "CtrlCrc"     -> 5
      [] reg = "CntSnapshot" -> 7
      [] reg = "Config"      -> 8
      [] reg = "Status0"     -> 9
      [] reg = "Lock"        -> 10
      [] reg = "SyncSnap"    -> 11
      [] reg = "Counter0"    -> 12
      [] reg = "Counter1"    -> 13
      [] reg = "EmiCtrl"     -> 14
      [] reg = "Status1"     -> 15
      [] OTHER               -> 24

\* A writable list that lacks EmiCtrl
is_read_only_emi_ctrl(reg) ==
    reg \notin {"Config", "Lock", "SyncSnap", "Counter0", "Counter1"}

\* Register::is_read_only
is_read_only(reg) ==
    reg \notin {"Config", "Lock", "SyncSnap", "Counter0", "Counter1", "EmiCtrl"}

\* Register::is_write_only
is_write_only(reg) == reg \in {"Lock", "SyncSnap"}

\* enum SpiOp
SpiOp_Read == 4
SpiOp_Write == 0

\* enum LockOp: Enable = 0xCA, Disable = 0x9C
LockOp_Enable == 202
LockOp_Disable == 156

\* The command byte (reg.addr() << 3) | op of read_reg, write_reg and burst_read
Cmd(reg, spiop) == (Register_addr(reg) * 8 + spiop) % 256

(***************************************************************************)
(* Steps of the engine.  A step is a record: k the kind of step, d the     *)
(* device whose engine takes it, a its byte or integer arguments.          *)
(***************************************************************************)
Step(k, d, a) == [k |-> k, d |-> d, a |-> a]

Zeros(n) == [j \in 1 .. n |-> 0]

\* Concatenation of the sequences f[lo], f[lo + 1], ..., f[hi]: a `for` loop
RECURSIVE ForEach(_, _, _)
ForEach(f, lo, hi) == IF lo > hi THEN <<>> ELSE f[lo] \o ForEach(f, lo + 1, hi)

(***************************************************************************)
(* ade791x.rs: the SPI transactions of one engine.                         *)
(***************************************************************************)
\* write_reg that leaves CS asserted: the set_high after the transfer is lost
write_reg_no_release(d, reg, content) ==
    IF is_read_only(reg)
    THEN << Step("ReadOnlyRegister", d, <<>>) >>
    ELSE << Step("set_low", d, <<>>),
            Step("transfer", d, <<Cmd(reg, SpiOp_Write), content>>) >>

\* write_reg: CS low, transfer of [cmd, content], CS high
write_reg(d, reg, content) ==
    IF is_read_only(reg)
    THEN << Step("ReadOnlyRegister", d, <<>>) >>
    ELSE << Step("set_low", d, <<>>),
            Step("transfer", d, <<Cmd(reg, SpiOp_Write), content>>),
            Step("set_high", d, <<>>) >>

\* read_reg: CS low, transfer of [cmd, 0], CS high; the caller reads rx[2]
read_reg(d, reg) ==
    IF is_write_only(reg)
    THEN << Step("WriteOnlyRegister", d, <<>>) >>
    ELSE << Step("set_low", d, <<>>),
            Step("transfer", d, <<Cmd(reg, SpiOp_Read), 0>>),
            Step("set_high", d, <<>>) >>

\* write_reg_checked: write_reg, read_reg, comparison of the readback
write_reg_checked(d, reg, content) ==
    write_reg(d, reg, content) \o read_reg(d, reg)
        \o << Step("check_content", d, <<content>>) >>

\* burst_read: the start index of the start register in the 15-byte frame
start_index(start_reg) ==
    CASE start_reg = "Iwv"         -> 1
      [] start_reg = "V1wv"        -> 4
      [] start_reg = "V2wv"        -> 7
      [] start_reg = "AdcCrc"      -> 10
      [] start_reg = "Status0"     -> 12
      [] start_reg = "CntSnapshot" -> 13
      [] OTHER                     -> -1

\* burst_read that raises CS before the transfer instead of after it
burst_read_release_early(d, start_reg, len) ==
    IF start_index(start_reg) < 0
    THEN << Step("BurstReadNotPermitted", d, <<>>) >>
    ELSE << Step("set_low", d, <<>>),
            Step("set_high", d, <<>>),
            Step("transfer", d, <<Cmd(start_reg, SpiOp_Read)>> \o Zeros(len)),
            Step("frame", d, <<start_index(start_reg), len>>) >>

\* burst_read: CS low, transfer of bytes[..len+1], CS high, then the frame
burst_read(d, start_reg, len) ==
    IF start_index(start_reg) < 0
    THEN << Step("BurstReadNotPermitted", d, <<>>) >>
    ELSE << Step("set_low", d, <<>>),
            Step("transfer", d, <<Cmd(start_reg, SpiOp_Read)>> \o Zeros(len)),
            Step("set_high", d, <<>>),
            Step("frame", d, <<start_index(start_reg), len>>) >>

\* burst_read, after the transfer: bytes[..len+1] holds the response r, the
\* rest of the 15 bytes is still 0; copy_within(1..len+1, start_index), then
\* fill(0) on 1..start_index.  Byte j of the frame is element j + 1.
Frame(r, si, len) ==
    LET bytes == [j \in 0 .. 14 |-> IF j <= len THEN r[j + 1] ELSE 0]
        moved == [j \in 0 .. 14 |->
                    IF j >= si /\ j < si + len THEN bytes[j - si + 1] ELSE bytes[j]]
        filled == [j \in 0 .. 14 |-> IF j >= 1 /\ j < si THEN 0 ELSE moved[j]]
    IN  [j \in 1 .. 15 |-> filled[j - 1]]

(***************************************************************************)
(* ade791x.rs: the operations of one engine.                               *)
(***************************************************************************)
\* hard_reset that sends one byte too few
hard_reset_short(d) ==
    << Step("set_low", d, <<>>),
       Step("transfer", d, Zeros(7)),
       Step("set_high", d, <<>>) >>

\* hard_reset: CS low, transfer of eight zero bytes, CS high
hard_reset(d) ==
    << Step("set_low", d, <<>>),
       Step("transfer", d, Zeros(8)),
       Step("set_high", d, <<>>) >>

\* soft_reset that sets swrst in the cached configuration
soft_reset_cached(d) ==
    write_reg(d, "Config", Config_into([config[d] EXCEPT !.swrst = TRUE]))

\* soft_reset: Config { swrst: true, ..Default::default() }, unchecked write
soft_reset(d) ==
    write_reg(d, "Config", Config_into([Config_default EXCEPT !.swrst = TRUE]))

\* wait_reset, iteration n of `for _ in 0..5`: read Status0, then decide
wait_reset(d, n) ==
    read_reg(d, "Status0") \o << Step("check_reset", d, <<n>>) >>

\* powerdown that leaves CLKOUT enabled
powerdown_keeps_clkout(d, cfg) ==
    write_reg(d, "Config", Config_into([cfg EXCEPT !.pwrdwn_en = TRUE]))

\* powerdown: the cached config with pwrdwn_en set and clkout_en cleared
powerdown(d, cfg) ==
    write_reg(d, "Config",
              Config_into([cfg EXCEPT !.pwrdwn_en = TRUE, !.clkout_en = FALSE]))

\* wakeup: the cached config as it is
wakeup(d, cfg) == write_reg(d, "Config", Config_into(cfg))

\* broadcast_listen / broadcast_end: the CS pin alone, no SPI byte
broadcast_listen(d) == << Step("set_low", d, <<>>) >>
broadcast_end(d) == << Step("set_high", d, <<>>) >>

\* sync / snap: write SyncSnap with the one bit set
sync(d) == write_reg(d, "SyncSnap", SyncSnap_into([sync |-> TRUE, snap |-> FALSE]))
snap(d) == write_reg(d, "SyncSnap", SyncSnap_into([sync |-> FALSE, snap |-> TRUE]))

\* lock / unlock: write Lock with Enable / Disable
lock(d) == write_reg(d, "Lock", LockOp_Enable)
unlock(d) == write_reg(d, "Lock", LockOp_Disable)

\* get_cnt_snapshot that reads the two bytes of the CntSnapshot register
get_cnt_snapshot_from_register(d) ==
    burst_read(d, "CntSnapshot", 2) \o << Step("cnt_snapshot", d, <<>>) >>

\* get_cnt_snapshot: burst read from Iwv with len 9, then the decoded field
get_cnt_snapshot(d) ==
    burst_read(d, "Iwv", 9) \o << Step("cnt_snapshot", d, <<>>) >>

\* adjust_sync of the engine: the snapshot, then drift and correction
adjust_sync(d, cref) ==
    get_cnt_snapshot(d) \o << Step("drift", d, <<cref>>) >>

\* adjust_sync: c0 of the cached adc_freq
C0(cfg) ==
    CASE cfg.adc_freq = "KHz8" -> 511
      [] cfg.adc_freq = "KHz4" -> 1023
      [] cfg.adc_freq = "KHz2" -> 2047
      [] OTHER                 -> 4095

\* `x as i16` of a u16
AsI16(x) == IF x >= 32768 THEN x - 65536 ELSE x

\* An arithmetic operation gives a value; one that overflows either wraps
\* or, in a build with overflow checks, panics at its line.  The build
\* profile is not fixed by the sources, so both outcomes are possible.
Value(x) == [ok |-> TRUE, v |-> x]
Overflow(line, wrapped) == {[ok |-> FALSE, v |-> line], Value(wrapped)}

\* adjust_sync: drift = c as i16 - cref as i16, an i16 subtraction
Drift(c, cref) ==
    LET x == AsI16(c) - AsI16(cref)
    IN  IF x < -32768 \/ x > 32767
        THEN Overflow(170, AsI16(x % 65536))
        ELSE {Value(x)}

\* A threshold that lost its sign: drift > 1 || drift < 1
NeedsAdjust_lost_sign(drift) == drift > 1 \/ drift < 1

\* adjust_sync: the correction is written when drift > 1 || drift < -1
NeedsAdjust(drift) == drift > 1 \/ drift < -1

\* A preload whose two arms are exchanged
Adj_arms_exchanged(c, cref, c0) ==
    IF c > cref
    THEN Overflow(172, (cref - c) % 65536)
    ELSE IF cref + c0 - c > 65535
         THEN Overflow(172, (cref + c0 - c) % 65536)
         ELSE {Value(cref + c0 - c)}

\* adjust_sync: adj = if c > cref { cref + c0 - c } else { cref - c } on u16
\* in u16 arithmetic: cref + c0 may exceed 65535, and (cref + c0) - c may
\* go below 0
Adj(c, cref, c0) ==
    IF c > cref
    THEN IF cref + c0 > 65535 \/ cref + c0 < c
         THEN Overflow(172, (cref + c0 - c) % 65536)
         ELSE {Value(cref + c0 - c)}
    ELSE {Value(cref - c)}

\* The two Counter writes in the order of the bytes of adj: high, then low
adjust_writes_high_first(d, adj) ==
    write_reg(d, "Counter1", adj \div 256) \o write_reg(d, "Counter0", adj % 256)

\* adjust_sync: Counter0 gets bytes[1] (low) first, then Counter1 bytes[0] (high)
adjust_writes(d, adj) ==
    write_reg(d, "Counter0", adj % 256) \o write_reg(d, "Counter1", adj \div 256)

\* get_raw_measurement that reads every sample from the first device
get_raw_measurement_of_first(d) ==
    burst_read(0, "Iwv", 9) \o << Step("raw_measurement", d, <<>>) >>

\* get_raw_measurement: burst read from Iwv with len 9, then the three samples
get_raw_measurement(d) ==
    burst_read(d, "Iwv", 9) \o << Step("raw_measurement", d, <<>>) >>

\* get_measurement: the raw measurement, then the conversion
get_measurement(d) ==
    burst_read(d, "Iwv", 9) \o << Step("measurement", d, <<>>) >>

\* An aux channel that looks at temp_en alone and forgets the chip variant
AuxKind_temp_en_only(c, cfg) ==
    IF cfg.temp_en THEN "Temperature" ELSE "Voltage"

\* get_measurement: the aux channel is a temperature for ADE7912 or temp_en
AuxKind(c, cfg) ==
    IF c = "ADE7912" \/ cfg.temp_en THEN "Temperature" ELSE "Voltage"

\* init that programs EmiCtrl before Config
init_emi_first(d, cfg, cal, emi) ==
    << Step("store", d, <<cfg, cal>>) >>
        \o wait_reset(d, 0)
        \o write_reg_checked(d, "EmiCtrl", EmiCtrl_into(emi))
        \o write_reg_checked(d, "Config", Config_into(cfg))
        \o << Step("aux_offset", d, <<>>), Step("aux_gain", d, <<>>) >>

\* init that stores config and calibration only when the writes succeeded
init_store_last(d, cfg, cal, emi) ==
    wait_reset(d, 0)
        \o write_reg_checked(d, "Config", Config_into(cfg))
        \o write_reg_checked(d, "EmiCtrl", EmiCtrl_into(emi))
        \o << Step("store", d, <<cfg, cal>>),
              Step("aux_offset", d, <<>>), Step("aux_gain", d, <<>>) >>

\* init of the engine: store config and calibration, wait_reset, the two
\* checked writes, then the aux calibration defaults
init(d, cfg, cal, emi) ==
    << Step("store", d, <<cfg, cal>>) >>
        \o wait_reset(d, 0)
        \o write_reg_checked(d, "Config", Config_into(cfg))
        \o write_reg_checked(d, "EmiCtrl", EmiCtrl_into(emi))
        \o << Step("aux_offset", d, <<>>), Step("aux_gain", d, <<>>) >>

\* is_dr_source
is_dr_source(cfg) == ~ cfg.clkout_en

(***************************************************************************)
(* poly.rs: the coordinator.  Every operation ends with its `Ok(..)`.      *)
(***************************************************************************)
Return == << Step("return", 0, <<>>) >>

\* A listen loop that starts one device too late: `self.adcs[2.min(N)..]`
listen_all_from_2 == ForEach([i \in 1 .. (N - 1) |-> broadcast_listen(i)], 2, N - 1)

\* `for adc in &mut self.adcs[1.min(N)..] { adc.broadcast_listen()?; }`
listen_all == ForEach([i \in 1 .. (N - 1) |-> broadcast_listen(i)], 1, N - 1)

\* The end of a broadcast that leaves device 1 listening
end_all_from_2 == ForEach([i \in 1 .. (N - 1) |-> broadcast_end(i)], 2, N - 1)

\* `for adc in &mut self.adcs[1.min(N)..] { adc.broadcast_end()?; }`
end_all == ForEach([i \in 1 .. (N - 1) |-> broadcast_end(i)], 1, N - 1)

\* A broadcast lock that returns without ending the listening
poly_lock_no_end == listen_all \o lock(0)

\* The private broadcasts of the coordinator
poly_sync == listen_all \o sync(0) \o end_all
poly_snap == listen_all \o snap(0) \o end_all
poly_lock == listen_all \o lock(0) \o end_all
poly_unlock == listen_all \o unlock(0) \o end_all

\* init that locks before it syncs
poly_init_sync_last(cfgs, cals, emis) ==
    ForEach([i \in Dev |-> init(i, cfgs[i], cals[i], emis[i])], 0, N - 1)
        \o poly_lock
        \o (IF N > 1 THEN poly_sync ELSE <<>>)
        \o Return

\* init that syncs whatever N is
poly_init_sync_always(cfgs, cals, emis) ==
    ForEach([i \in Dev |-> init(i, cfgs[i], cals[i], emis[i])], 0, N - 1)
        \o poly_sync
        \o poly_lock
        \o Return

\* init: every engine in index order, sync if N > 1, lock
poly_init(cfgs, cals, emis) ==
    ForEach([i \in Dev |-> init(i, cfgs[i], cals[i], emis[i])], 0, N - 1)
        \o (IF N > 1 THEN poly_sync ELSE <<>>)
        \o poly_lock
        \o Return

\* hard_reset: listen, hard_reset of engine 0, end
poly_hard_reset == listen_all \o hard_reset(0) \o end_all \o Return

\* soft_reset: unlock, soft_reset of every engine
poly_soft_reset ==
    poly_unlock \o ForEach([i \in Dev |-> soft_reset(i)], 0, N - 1) \o Return

\* powerdown that returns without the closing lock
poly_powerdown_no_lock ==
    poly_unlock \o ForEach([i \in Dev |-> powerdown(i, config[i])], 0, N - 1)
        \o Return

\* powerdown that keeps the powered-down configuration in the cache
poly_powerdown_cached ==
    poly_unlock
        \o ForEach([i \in Dev |->
                       << Step("store", i,
                               << [config[i] EXCEPT !.pwrdwn_en = TRUE,
                                                    !.clkout_en = FALSE],
                                  calibration[i] >>) >>
                           \o powerdown(i, config[i])], 0, N - 1)
        \o poly_lock \o Return

\* powerdown: unlock, powerdown of every engine, lock
poly_powerdown ==
    poly_unlock \o ForEach([i \in Dev |-> powerdown(i, config[i])], 0, N - 1)
        \o poly_lock \o Return

\* wakeup that skips engine 0, as the broadcast loops do
poly_wakeup_skip_first ==
    poly_unlock \o ForEach([i \in Dev |-> wakeup(i, config[i])], 1, N - 1)
        \o poly_lock \o Return

\* wakeup: unlock, wakeup of every engine, lock
poly_wakeup ==
    poly_unlock \o ForEach([i \in Dev |-> wakeup(i, config[i])], 0, N - 1)
        \o poly_lock \o Return

\* A reference search with the predicate inverted: the first CLKOUT emitter
ref_adc_index_clkout ==
    IF \E i \in Dev : config[i].clkout_en
    THEN CHOOSE i \in Dev : /\ config[i].clkout_en
                            /\ \A j \in Dev : config[j].clkout_en => i <= j
    ELSE 0

\* adjust_sync: `.position(|adc| adc.is_dr_source()).unwrap_or(0)`
ref_adc_index ==
    IF \E i \in Dev : is_dr_source(config[i])
    THEN CHOOSE i \in Dev : /\ is_dr_source(config[i])
                            /\ \A j \in Dev : is_dr_source(config[j]) => i <= j
    ELSE 0

\* adjust_sync that latches the counters before it unlocks
poly_adjust_sync_snap_first ==
    poly_snap \o poly_unlock \o get_cnt_snapshot(ref_adc_index)
        \o << Step("cref", ref_adc_index, <<>>) >>

\* adjust_sync, up to `let cref = ...?`: unlock, snap, snapshot of the reference
poly_adjust_sync ==
    poly_unlock \o poly_snap \o get_cnt_snapshot(ref_adc_index)
        \o << Step("cref", ref_adc_index, <<>>) >>

\* adjust_sync whose loop does not skip the reference
poly_adjust_sync_loop_all(ref, cref) ==
    ForEach([i \in Dev |-> adjust_sync(i, cref)], 0, N - 1)
        \o poly_lock \o Return

\* adjust_sync, from `let mut drift = [0; N]`: every engine but the reference
\* adjusts against cref, then lock
poly_adjust_sync_loop(ref, cref) ==
    ForEach([i \in Dev |-> IF i = ref THEN <<>> ELSE adjust_sync(i, cref)], 0, N - 1)
        \o poly_lock \o Return

\* get_raw_measurement: every engine in index order
poly_get_raw_measurement ==
    ForEach([i \in Dev |-> get_raw_measurement(i)], 0, N - 1) \o Return

\* get_measurement: every engine in index order
poly_get_measurement ==
    ForEach([i \in Dev |-> get_measurement(i)], 0, N - 1) \o Return

(***************************************************************************)
(* Inputs: what the application passes and what the bus answers.           *)
(***************************************************************************)
\* Option<f32>: None is <<>>, Some(v) is <<v>>
None == <<>>
Some(v) == <<v>>

\* Calibration::default(): aux offset and aux gain unset
Calibration_default == [offset_aux |-> None, gain_aux |-> None]

\* The chip variants given to `new`
ChipArrays ==
    { [i \in Dev |-> IF i % 2 = 0 THEN "ADE7912" ELSE "ADE7913"],
      [i \in Dev |-> IF i % 2 = 0 THEN "ADE7913" ELSE "ADE7912"] }

\* The arguments given to init
InitInputs ==
    { \* every device but the last emits CLKOUT, slots alternate
      [ config |-> [i \in Dev |-> [Config_default EXCEPT !.clkout_en = (i < N - 1)]],
        calibration |-> [i \in Dev |-> Calibration_default],
        emi_ctrl |-> [i \in Dev |-> EmiCtrl_from(IF i % 2 = 0 THEN 85 ELSE 170)] ],
      \* all defaults: every device is a DREADY source
      [ config |-> [i \in Dev |-> Config_default],
        calibration |-> [i \in Dev |-> Calibration_default],
        emi_ctrl |-> [i \in Dev |-> EmiCtrl_default] ],
      \* every device emits CLKOUT and measures temperature at its own rate;
      \* the aux calibration is supplied for the devices of even index
      [ config |-> [i \in Dev |-> Config_from(137 + 16 * (i % 4))],
        calibration |-> [i \in Dev |-> IF i % 2 = 0
                                        THEN [offset_aux |-> Some(7), gain_aux |-> Some("user")]
                                        ELSE Calibration_default],
        emi_ctrl |-> [i \in Dev |-> EmiCtrl_default] ] }

\* Ten-byte answers to the burst read from Iwv
BurstFrames ==
    { <<4, 5, 236, 223, 6, 23, 28, 55, 190, 151>>,
      <<255, 128, 0, 0, 255, 255, 255, 127, 255, 255>> }

\* Answer of the Tempos register: 0xA2, a negative offset
TemposBytes == {162}

\* `x as i8` of a byte
AsI8(x) == IF x >= 128 THEN x - 256 ELSE x

(***************************************************************************)
(* The state after `new`.                                                  *)
(***************************************************************************)
Init ==
    /\ N \in 1 .. MaxN
    /\ chip \in ChipArrays
    /\ config = [i \in Dev |-> Config_default]
    /\ calibration = [i \in Dev |-> Calibration_default]
    /\ cs = [i \in Dev |-> "high"]
    /\ op = "new"
    /\ todo = <<>>
    /\ rx = <<>>
    /\ result = "none"
    /\ out = <<>>
    /\ snapshot = [i \in Dev |-> 0]
    /\ trace = <<>>
    /\ lastLock = -1
    /\ history = "none"
    /\ slowLeft = MaxSlow

(***************************************************************************)
(* Events of the trace: e is "low", "high", "transfer" or "delay"; d is the *)
(* device whose engine made the call; tx is what was sent and rx what came *)
(* back; sel is the set of devices whose CS is low once the event has      *)
(* happened.                                                               *)
(***************************************************************************)
Selected(c) == {i \in DOMAIN c : c[i] = "low"}
Event(e, d, tx, r, c) == [e |-> e, d |-> d, tx |-> tx, rx |-> r, sel |-> Selected(c)]

Running == result = "pending" /\ todo # <<>>
Idle == result # "pending"

\* The end of an operation that panicked on an overflow at a line of
\* ade791x.rs
Panicked(line) ==
    IF line = 170 THEN "panicked at ade791x.rs:170" ELSE "panicked at ade791x.rs:172"

Panics == {Panicked(170), Panicked(172)}

\* After a fault of the bus (a pin error, an SPI error, a corrupted readback)
\* the application stops using the driver; after a panic there is no driver
Usable ==
    Idle /\ result \notin ({"PinError", "SpiError", "RegisterContentMismatch"} \cup Panics)

(***************************************************************************)
(* Calls of the public operations of the coordinator.                      *)
(***************************************************************************)
\* What the lock history becomes when the running operation returns res
HistoryAfter(res) ==
    IF op = "init" /\ res = "Ok" THEN "init_ok"
    ELSE IF op \in {"powerdown", "wakeup", "adjust_sync"} /\ res # "Ok"
            /\ history = "init_ok"
    THEN "aborted"
    ELSE history

\* The caller enters operation name with the steps prog and the result array o
Call(name, prog, o) ==
    /\ Usable
    /\ op' = name
    /\ todo' = prog
    /\ result' = "pending"
    /\ out' = o
    /\ trace' = <<>>
    /\ rx' = <<>>
    /\ snapshot' = [i \in Dev |-> 0]
    /\ history' = IF name = "soft_reset" /\ history = "init_ok"
                  THEN "soft_reset" ELSE history
    /\ UNCHANGED <<N, chip, config, calibration, cs, lastLock, slowLeft>>

CallInit ==
    \E inp \in InitInputs :
        Call("init", poly_init(inp.config, inp.calibration, inp.emi_ctrl), <<>>)

CallHardReset == Call("hard_reset", poly_hard_reset, <<>>)

CallSoftReset == Call("soft_reset", poly_soft_reset, <<>>)

CallPowerdown == Call("powerdown", poly_powerdown, <<>>)

CallWakeup == Call("wakeup", poly_wakeup, <<>>)

CallAdjustSync == Call("adjust_sync", poly_adjust_sync, <<>>)

CallGetRawMeasurement ==
    Call("get_raw_measurement", poly_get_raw_measurement,
         [i \in Dev |-> [iwv |-> 0, v1wv |-> 0, v2wv |-> 0]])

CallGetMeasurement ==
    Call("get_measurement", poly_get_measurement,
         [i \in Dev |-> [iwv |-> 0, v1wv |-> 0, v2wv |-> 0, aux |-> "Voltage"]])

(***************************************************************************)
(* Steps on the pin, the bus and the delay source.                         *)
(***************************************************************************)
\* A return that records res but leaves the rest of the sequence queued
Finish_keeps_rest(res) ==
    /\ result' = res
    /\ todo' = Tail(todo)
    /\ history' = HistoryAfter(res)

\* The operation returns res: `?` on an error, or the final Ok
Finish(res) ==
    /\ result' = res
    /\ todo' = <<>>
    /\ history' = HistoryAfter(res)

\* cs.set_low() returns Ok
SetLow ==
    /\ Running
    /\ Head(todo).k = "set_low"
    /\ cs' = [cs EXCEPT ![Head(todo).d] = "low"]
    /\ trace' = Append(trace, Event("low", Head(todo).d, <<>>, <<>>, cs'))
    /\ todo' = Tail(todo)
    /\ UNCHANGED <<N, chip, config, calibration, op, rx, result, out, snapshot,
                   lastLock, history, slowLeft>>

\* cs.set_high() returns Ok
SetHigh ==
    /\ Running
    /\ Head(todo).k = "set_high"
    /\ cs' = [cs EXCEPT ![Head(todo).d] = "high"]
    /\ trace' = Append(trace, Event("high", Head(todo).d, <<>>, <<>>, cs'))
    /\ todo' = Tail(todo)
    /\ UNCHANGED <<N, chip, config, calibration, op, rx, result, out, snapshot,
                   lastLock, history, slowLeft>>

\* cs.set_low() or cs.set_high() returns Err: map_err(Error::PinError)?
PinError ==
    /\ Running
    /\ Head(todo).k \in {"set_low", "set_high"}
    /\ Finish("PinError")
    /\ UNCHANGED <<N, chip, config, calibration, cs, op, rx, out, snapshot, trace,
                   lastLock, slowLeft>>

\* The byte a readback is compared with, when the transfer is a readback
Expected == IF Len(todo) >= 3 /\ todo[3].k = "check_content"
            THEN todo[3].a[1] ELSE -1

\* The iteration of wait_reset the transfer belongs to, when it is a poll
Poll == IF Len(todo) >= 3 /\ todo[3].k = "check_reset"
        THEN todo[3].a[1] ELSE -1

\* The device may answer a poll with reset_on = 1 when it already did so in
\* this wait_reset, or when a further slow reset is within the bound
MayBeBusy == Poll > 0 \/ (Poll = 0 /\ slowLeft > 0)

\* What the bus may answer to the bytes tx
Responses(tx) ==
    IF Len(tx) = 10 THEN BurstFrames
    ELSE IF Len(tx) # 2 THEN {<<>>}
    ELSE IF Poll >= 0
    THEN {<<tx[1], 0>>} \cup (IF MayBeBusy THEN {<<tx[1], 1>>} ELSE {})
    ELSE IF tx[1] = Cmd("Tempos", SpiOp_Read)
    THEN {<<tx[1], t>> : t \in TemposBytes}
    ELSE IF Expected >= 0
    THEN {<<tx[1], Expected>>, <<tx[1], (Expected + 1) % 256>>}
    ELSE {<<>>}

\* spi.transfer() returns Ok with the answer r
Transfer ==
    /\ Running
    /\ Head(todo).k = "transfer"
    /\ \E r \in Responses(Head(todo).a) :
        /\ rx' = r
        /\ slowLeft' = IF Poll = 0 /\ r[2] = 1 THEN slowLeft - 1 ELSE slowLeft
    /\ trace' = Append(trace, Event("transfer", Head(todo).d, Head(todo).a, rx', cs))
    /\ lastLock' = IF Head(todo).a[1] = Cmd("Lock", SpiOp_Write) /\ Len(Head(todo).a) = 2
                   THEN Head(todo).a[2] ELSE lastLock
    /\ todo' = Tail(todo)
    /\ UNCHANGED <<N, chip, config, calibration, cs, op, result, out, snapshot, history>>

\* A failing transfer after which the transaction releases its CS
SpiError_releases ==
    /\ Running
    /\ Head(todo).k = "transfer"
    /\ Finish("SpiError")
    /\ cs' = [cs EXCEPT ![Head(todo).d] = "high"]
    /\ UNCHANGED <<N, chip, config, calibration, op, rx, out, snapshot, trace,
                   lastLock, slowLeft>>

\* spi.transfer() returns Err: map_err(Error::SpiError)?
SpiError ==
    /\ Running
    /\ Head(todo).k = "transfer"
    /\ Finish("SpiError")
    /\ UNCHANGED <<N, chip, config, calibration, cs, op, rx, out, snapshot, trace,
                   lastLock, slowLeft>>

(***************************************************************************)
(* Steps of the engine on what it holds and on what the bus returned.      *)
(***************************************************************************)
\* init: self.config = config; self.calibration = calibration
Store ==
    /\ Running
    /\ Head(todo).k = "store"
    /\ config' = [config EXCEPT ![Head(todo).d] = Head(todo).a[1]]
    /\ calibration' = [calibration EXCEPT ![Head(todo).d] = Head(todo).a[2]]
    /\ todo' = Tail(todo)
    /\ UNCHANGED <<N, chip, cs, op, rx, result, out, snapshot, trace, lastLock,
                   history, slowLeft>>

\* wait_reset: the number of iterations of `for _ in 0..5`
ResetPolls == 5

\* wait_reset that polls once more than `0..5`
next_poll_one_more(d, n, rest) ==
    IF n + 1 <= ResetPolls
    THEN wait_reset(d, n + 1) \o rest
    ELSE << Step("ResetTimeout", d, <<>>) >>

\* wait_reset whose loop is `for _ in 0..7`
next_poll_two_more(d, n, rest) ==
    IF n + 1 < ResetPolls + 2
    THEN wait_reset(d, n + 1) \o rest
    ELSE << Step("ResetTimeout", d, <<>>) >>

\* wait_reset, after the delay of iteration n: iteration n + 1, or the loop
\* is over and wait_reset returns Err(ResetTimeout)
next_poll(d, n, rest) ==
    IF n + 1 < ResetPolls
    THEN wait_reset(d, n + 1) \o rest
    ELSE << Step("ResetTimeout", d, <<>>) >>

\* wait_reset that delays 100 ms after every read, the last one included
CheckReset_always_delays ==
    /\ Running
    /\ Head(todo).k = "check_reset"
    /\ LET d == Head(todo).d
           n == Head(todo).a[1]
       IN  /\ trace' = Append(trace, Event("delay", d, <<100>>, <<>>, cs))
           /\ todo' = IF ~ Status0_from(rx[2]).reset_on
                      THEN Tail(todo)
                      ELSE next_poll(d, n, Tail(todo))
    /\ UNCHANGED <<N, chip, config, calibration, cs, op, rx, result, out, snapshot,
                   lastLock, history, slowLeft>>

\* wait_reset, after the read of iteration n: return Ok if reset_on is clear,
\* else delay 100 ms and go on with iteration n + 1, or Err(ResetTimeout)
CheckReset ==
    /\ Running
    /\ Head(todo).k = "check_reset"
    /\ LET d == Head(todo).d
           n == Head(todo).a[1]
       IN  IF ~ Status0_from(rx[2]).reset_on
           THEN /\ todo' = Tail(todo)
                /\ trace' = trace
           ELSE /\ trace' = Append(trace, Event("delay", d, <<100>>, <<>>, cs))
                /\ todo' = next_poll(d, n, Tail(todo))
    /\ UNCHANGED <<N, chip, config, calibration, cs, op, rx, result, out, snapshot,
                   lastLock, history, slowLeft>>

\* write_reg_checked that goes on whatever the readback is
CheckContent_goes_on ==
    /\ Running
    /\ Head(todo).k = "check_content"
    /\ todo' = Tail(todo)
    /\ UNCHANGED <<N, chip, config, calibration, cs, op, rx, result, out, snapshot,
                   trace, lastLock, history, slowLeft>>

\* write_reg_checked, after the readback: compare it with the byte written
CheckContent ==
    /\ Running
    /\ Head(todo).k = "check_content"
    /\ todo' = IF rx[2] # Head(todo).a[1]
               THEN << Step("RegisterContentMismatch", Head(todo).d, <<>>) >>
               ELSE Tail(todo)
    /\ UNCHANGED <<N, chip, config, calibration, cs, op, rx, result, out, snapshot,
                   trace, lastLock, history, slowLeft>>

\* `return Err(..)` of wait_reset, write_reg_checked, read_reg, write_reg and
\* burst_read, carried up by `?`
Raise ==
    /\ Running
    /\ Head(todo).k \in {"ResetTimeout", "RegisterContentMismatch",
                         "ReadOnlyRegister", "WriteOnlyRegister",
                         "BurstReadNotPermitted"}
    /\ Finish(Head(todo).k)
    /\ UNCHANGED <<N, chip, config, calibration, cs, op, rx, out, snapshot, trace,
                   lastLock, slowLeft>>

\* An aux offset that is read from Tempos for temp_en alone
AuxOffset_temp_en_only ==
    /\ Running
    /\ Head(todo).k = "aux_offset"
    /\ LET d == Head(todo).d
       IN  IF calibration[d].offset_aux # None
           THEN /\ todo' = Tail(todo)
                /\ calibration' = calibration
           ELSE IF config[d].temp_en
           THEN /\ todo' = read_reg(d, "Tempos") \o << Step("tempos", d, <<>>) >>
                             \o Tail(todo)
                /\ calibration' = calibration
           ELSE /\ todo' = Tail(todo)
                /\ calibration' = [calibration EXCEPT ![d].offset_aux = Some(0)]
    /\ UNCHANGED <<N, chip, config, cs, op, rx, result, out, snapshot, trace,
                   lastLock, history, slowLeft>>

\* init: the aux offset, when unset, is read from Tempos or is 0
AuxOffset ==
    /\ Running
    /\ Head(todo).k = "aux_offset"
    /\ LET d == Head(todo).d
       IN  IF calibration[d].offset_aux # None
           THEN /\ todo' = Tail(todo)
                /\ calibration' = calibration
           ELSE IF config[d].temp_en \/ chip[d] = "ADE7912"
           THEN /\ todo' = read_reg(d, "Tempos") \o << Step("tempos", d, <<>>) >>
                             \o Tail(todo)
                /\ calibration' = calibration
           ELSE /\ todo' = Tail(todo)
                /\ calibration' = [calibration EXCEPT ![d].offset_aux = Some(0)]
    /\ UNCHANGED <<N, chip, config, cs, op, rx, result, out, snapshot, trace,
                   lastLock, history, slowLeft>>

\* init: Some(self.read_reg(spi, Register::Tempos)?[1] as i8 as f32)
Tempos ==
    /\ Running
    /\ Head(todo).k = "tempos"
    /\ calibration' = [calibration EXCEPT ![Head(todo).d].offset_aux = Some(AsI8(rx[2]))]
    /\ todo' = Tail(todo)
    /\ UNCHANGED <<N, chip, config, cs, op, rx, result, out, snapshot, trace,
                   lastLock, history, slowLeft>>

\* init: the aux gain, when unset, follows bw for a temperature, else is 1
AuxGain ==
    /\ Running
    /\ Head(todo).k = "aux_gain"
    /\ LET d == Head(todo).d
       IN  calibration' =
             IF calibration[d].gain_aux # None THEN calibration
             ELSE IF config[d].temp_en \/ chip[d] = "ADE7912"
             THEN [calibration EXCEPT ![d].gain_aux =
                      IF config[d].bw THEN Some("8.21015e-5") ELSE Some("8.72101e-5")]
             ELSE [calibration EXCEPT ![d].gain_aux = Some("1.0")]
    /\ todo' = Tail(todo)
    /\ UNCHANGED <<N, chip, config, cs, op, rx, result, out, snapshot, trace,
                   lastLock, history, slowLeft>>

\* burst_read, after the transfer: the received bytes in the 15-byte frame
FrameStep ==
    /\ Running
    /\ Head(todo).k = "frame"
    /\ rx' = Frame(rx, Head(todo).a[1], Head(todo).a[2])
    /\ todo' = Tail(todo)
    /\ UNCHANGED <<N, chip, config, calibration, cs, op, result, out, snapshot,
                   trace, lastLock, history, slowLeft>>

\* get_cnt_snapshot: BurstRead::from(frame).cnt_snapshot
CntSnapshot ==
    /\ Running
    /\ Head(todo).k = "cnt_snapshot"
    /\ snapshot' = [snapshot EXCEPT ![Head(todo).d] = BurstRead_from(rx).cnt_snapshot]
    /\ todo' = Tail(todo)
    /\ UNCHANGED <<N, chip, config, calibration, cs, op, rx, result, out, trace,
                   lastLock, history, slowLeft>>

\* adjust_sync of the coordinator: cref is the snapshot of the reference,
\* drift = [0; N], then the loop over the engines
Cref ==
    /\ Running
    /\ Head(todo).k = "cref"
    /\ out' = [i \in Dev |-> 0]
    /\ todo' = poly_adjust_sync_loop(Head(todo).d, snapshot[Head(todo).d])
    /\ UNCHANGED <<N, chip, config, calibration, cs, op, rx, result, snapshot,
                   trace, lastLock, history, slowLeft>>

\* adjust_sync of the engine, after the snapshot c: the drift against cref,
\* the two Counter writes when it exceeds 1, then `*val = drift`
DriftStep ==
    /\ Running
    /\ Head(todo).k = "drift"
    /\ LET d == Head(todo).d
           c == snapshot[d]
           cref == Head(todo).a[1]
       IN  \E drift \in Drift(c, cref) :
               IF ~ drift.ok
               THEN Finish(Panicked(drift.v))
               ELSE IF ~ NeedsAdjust(drift.v)
               THEN /\ todo' = << Step("set_drift", d, <<drift.v>>) >> \o Tail(todo)
                    /\ UNCHANGED <<result, history>>
               ELSE \E adj \in Adj(c, cref, C0(config[d])) :
                        IF ~ adj.ok
                        THEN Finish(Panicked(adj.v))
                        ELSE /\ todo' = adjust_writes(d, adj.v)
                                  \o << Step("set_drift", d, <<drift.v>>) >>
                                  \o Tail(todo)
                             /\ UNCHANGED <<result, history>>
    /\ UNCHANGED <<N, chip, config, calibration, cs, op, rx, out, snapshot,
                   trace, lastLock, slowLeft>>

\* adjust_sync of the coordinator: `*val = self.adcs[i].adjust_sync(..)?`
SetDrift ==
    /\ Running
    /\ Head(todo).k = "set_drift"
    /\ out' = [out EXCEPT ![Head(todo).d] = Head(todo).a[1]]
    /\ todo' = Tail(todo)
    /\ UNCHANGED <<N, chip, config, calibration, cs, op, rx, result, snapshot,
                   trace, lastLock, history, slowLeft>>

\* get_raw_measurement: the three samples of the frame, stored in the array
RawMeasurement ==
    /\ Running
    /\ Head(todo).k = "raw_measurement"
    /\ LET b == BurstRead_from(rx)
       IN  out' = [out EXCEPT ![Head(todo).d] =
                      [iwv |-> b.iwv, v1wv |-> b.v1wv, v2wv |-> b.v2wv]]
    /\ todo' = Tail(todo)
    /\ UNCHANGED <<N, chip, config, calibration, cs, op, rx, result, snapshot,
                   trace, lastLock, history, slowLeft>>

\* get_measurement: the samples and the kind of the aux value (the f32
\* conversions of the samples are left out), stored in the array
Measurement ==
    /\ Running
    /\ Head(todo).k = "measurement"
    /\ LET d == Head(todo).d
           b == BurstRead_from(rx)
       IN  out' = [out EXCEPT ![d] =
                      [iwv |-> b.iwv, v1wv |-> b.v1wv, v2wv |-> b.v2wv,
                       aux |-> AuxKind(chip[d], config[d])]]
    /\ todo' = Tail(todo)
    /\ UNCHANGED <<N, chip, config, calibration, cs, op, rx, result, snapshot,
                   trace, lastLock, history, slowLeft>>

\* The operation returns Ok
ReturnOk ==
    /\ Running
    /\ Head(todo).k = "return"
    /\ Finish("Ok")
    /\ UNCHANGED <<N, chip, config, calibration, cs, op, rx, out, snapshot, trace,
                   lastLock, slowLeft>>

Next ==
    \/ CallInit
    \/ CallHardReset
    \/ CallSoftReset
    \/ CallPowerdown
    \/ CallWakeup
    \/ CallAdjustSync
    \/ CallGetRawMeasurement
    \/ CallGetMeasurement
    \/ SetLow
    \/ SetHigh
    \/ PinError
    \/ Transfer
    \/ SpiError
    \/ Store
    \/ CheckReset
    \/ CheckContent
    \/ Raise
    \/ AuxOffset
    \/ Tempos
    \/ AuxGain
    \/ FrameStep
    \/ CntSnapshot
    \/ Cref
    \/ DriftStep
    \/ SetDrift
    \/ RawMeasurement
    \/ Measurement
    \/ ReturnOk

Spec == Init /\ [][Next]_vars

\* A step of the operation that is running.  Every operation runs on the
\* thread of its caller, and each call of the pin, the bus and the delay
\* source returns: the operation is not left half-way.
RunStep ==
    \/ SetLow
    \/ SetHigh
    \/ PinError
    \/ Transfer
    \/ SpiError
    \/ Store
    \/ CheckReset
    \/ CheckContent
    \/ Raise
    \/ AuxOffset
    \/ Tempos
    \/ AuxGain
    \/ FrameStep
    \/ CntSnapshot
    \/ Cref
    \/ DriftStep
    \/ SetDrift
    \/ RawMeasurement
    \/ Measurement
    \/ ReturnOk

FairSpec == Init /\ [][Next]_vars /\ WF_vars(RunStep)

(***************************************************************************)
(* The codec and the engine's byte computations on their own: one input,   *)
(* a register byte or a ten-byte answer to the burst read from Iwv, and    *)
(* one application of a conversion to it.  rx holds the input, op the      *)
(* conversion applied and out its result.                                  *)
(***************************************************************************)
\* Bytes of a sample: the first carries the sign
FirstBytes == {0, 127, 128, 255}
MiddleBytes == {0, 255}
LastBytes == {0, 1, 255}

\* Ten-byte answers: the echo of the command, then three samples
SampleFrames ==
    { <<e>> \o s1 \o s2 \o s3 :
        e \in {4, 255},
        s1 \in FirstBytes \X MiddleBytes \X LastBytes,
        s2 \in FirstBytes \X MiddleBytes \X LastBytes,
        s3 \in FirstBytes \X MiddleBytes \X LastBytes }

CodecInit ==
    /\ N = 1
    /\ chip \in ChipArrays
    /\ config = [i \in Dev |-> Config_default]
    /\ calibration = [i \in Dev |-> Calibration_default]
    /\ cs = [i \in Dev |-> "high"]
    /\ op = "new"
    /\ todo = <<>>
    /\ rx \in {<<b>> : b \in Byte} \cup SampleFrames \cup BurstFrames
    /\ result = "none"
    /\ out = <<>>
    /\ snapshot = [i \in Dev |-> 0]
    /\ trace = <<>>
    /\ lastLock = -1
    /\ history = "none"
    /\ slowLeft = MaxSlow

\* A conversion named name gives the result value for the input
Apply(name, value) ==
    /\ op = "new"
    /\ op' = name
    /\ out' = value
    /\ UNCHANGED <<N, chip, config, calibration, cs, todo, rx, result, snapshot,
                   trace, lastLock, history, slowLeft>>

\* u8::from(Config::from(b))
ConfigRoundTrip ==
    /\ Len(rx) = 1
    /\ Apply("Config::from", [decoded |-> Config_from(rx[1]),
                        encoded |-> Config_into(Config_from(rx[1]))])

\* u8::from(EmiCtrl::from(b))
EmiCtrlRoundTrip ==
    /\ Len(rx) = 1
    /\ Apply("EmiCtrl::from", [decoded |-> EmiCtrl_from(rx[1]),
                         encoded |-> EmiCtrl_into(EmiCtrl_from(rx[1]))])

\* powerdown of an engine whose cached configuration is Config::from(b)
PowerdownOf ==
    /\ Len(rx) = 1
    /\ Apply("Ade791x::powerdown", [cached |-> Config_from(rx[1]),
                           steps |-> powerdown(0, Config_from(rx[1]))])

\* wakeup of an engine whose cached configuration is Config::from(b)
WakeupOf ==
    /\ Len(rx) = 1
    /\ Apply("Ade791x::wakeup", [cached |-> Config_from(rx[1]),
                        steps |-> wakeup(0, Config_from(rx[1]))])

\* get_raw_measurement on the answer r: the frame of burst_read(Iwv, 9),
\* then BurstRead::from
DecodeBurst ==
    /\ Len(rx) = 10
    /\ LET b == BurstRead_from(Frame(rx, start_index("Iwv"), 9))
       IN  Apply("BurstRead::from", [iwv |-> b.iwv, v1wv |-> b.v1wv, v2wv |-> b.v2wv])

\* get_cnt_snapshot on the answer r: the bytes it sends, the frame that
\* burst_read makes of r, and the cnt_snapshot field of BurstRead::from
CntSnapshotOf ==
    /\ Len(rx) = 10
    /\ LET steps == get_cnt_snapshot(0)
           frame == Frame(rx, steps[4].a[1], steps[4].a[2])
       IN  Apply("Ade791x::get_cnt_snapshot",
                 [tx |-> steps[2].a, frame |-> frame,
                  value |-> BurstRead_from(frame).cnt_snapshot])

CodecNext ==
    \/ ConfigRoundTrip
    \/ EmiCtrlRoundTrip
    \/ PowerdownOf
    \/ WakeupOf
    \/ DecodeBurst
    \/ CntSnapshotOf

CodecSpec == CodecInit /\ [][CodecNext]_vars

(***************************************************************************)
(* The arithmetic of the engine's adjust_sync on its own: engine 1 holds   *)
(* the snapshot c and is adjusted against cref, the snapshot of engine 0.  *)
(* The values are inputs here; in the coordinator both are always 0,       *)
(* because get_cnt_snapshot never reads the counter bytes.                 *)
(***************************************************************************)
\* Values of a u16 counter: around 0, around each c0, around the sign bit
\* of `as i16`, and near 65535
CounterValues ==
    {0, 1, 2, 3, 511, 512, 1023, 2047, 4095, 32767, 32768, 32769, 65024, 65535}

\* The four values of AdcFreqVal
AdcFreqVals == {"KHz8", "KHz4", "KHz2", "KHz1"}

\* adjust_sync(spi, cref) of engine 1, from `let drift = ...`
AdjustInit ==
    /\ N = 2
    /\ chip = [i \in Dev |-> "ADE7913"]
    /\ \E f \in AdcFreqVals :
           config = [i \in Dev |-> IF i = 1
                                    THEN [Config_default EXCEPT !.adc_freq = f]
                                    ELSE Config_default]
    /\ calibration = [i \in Dev |-> Calibration_default]
    /\ cs = [i \in Dev |-> "high"]
    /\ op = "Ade791x::adjust_sync"
    /\ snapshot \in [Dev -> CounterValues]
    /\ todo = << Step("drift", 1, <<snapshot[0]>>) >> \o Return
    /\ rx = <<>>
    /\ result = "pending"
    /\ out = [i \in Dev |-> 0]
    /\ trace = <<>>
    /\ lastLock = LockOp_Disable
    /\ history = "none"
    /\ slowLeft = MaxSlow

AdjustNext ==
    \/ DriftStep
    \/ SetLow
    \/ SetHigh
    \/ PinError
    \/ Transfer
    \/ SpiError
    \/ SetDrift
    \/ ReturnOk

AdjustSpec == AdjustInit /\ [][AdjustNext]_vars

(***************************************************************************)
(* Properties.  The trace holds the events of the operation that is        *)
(* running or has last run; result tells how it ended.                     *)
(***************************************************************************)
IsTransfer(e) == e.e = "transfer"

\* The SPI transfers of the operation, in order
Transfers == SelectSeq(trace, IsTransfer)

Done(name) == op = name /\ result = "Ok"

\* [0x50, 0xCA], [0x50, 0x9C], [0x58, 0x01], [0x58, 0x02] and 8 zero bytes
LockWrite == <<80, 202>>
UnlockWrite == <<80, 156>>
SyncWrite == <<88, 1>>
SnapWrite == <<88, 2>>
HardResetBytes == <<0, 0, 0, 0, 0, 0, 0, 0>>

\* A transfer made as a broadcast: by engine 0, with every CS line low
IsBroadcast(e) == e.d = 0 /\ e.sel = Dev

\* C1: whenever init returns Ok, the last transfer it issued is the Lock
\* write [0x50, 0xCA], made as a broadcast through device 0.
C1_InitEndsWithLock ==
    Done("init") =>
        LET t == Transfers
        IN  /\ Len(t) > 0
            /\ t[Len(t)].tx = LockWrite
            /\ IsBroadcast(t[Len(t)])

C1_Witness == Done("init") /\ N > 1 /\ Len(Transfers) > 10

\* C2: a successful init issues the SyncSnap write [0x58, 0x01] if and only
\* if N > 1, and then once: as a broadcast, after the init traffic of every
\* device and before the first Lock write.
C2_SyncOnceIffPoly ==
    Done("init") =>
        LET t == Transfers
            syncs == {i \in 1 .. Len(t) : t[i].tx = SyncWrite}
            locks == {i \in 1 .. Len(t) : t[i].tx[1] = 80}
            own == {i \in 1 .. Len(t) : t[i].tx[1] \notin {80, 88}}
        IN  /\ N = 1 => syncs = {}
            /\ N > 1 =>
                /\ Cardinality(syncs) = 1
                /\ \A i \in syncs :
                    /\ IsBroadcast(t[i])
                    /\ \A j \in own : j < i
                    /\ \A d \in Dev : \E j \in own : t[j].d = d
                    /\ \A j \in locks : i < j

C2_Witness ==
    /\ Done("init")
    /\ N > 2
    /\ \E i \in 1 .. Len(trace) : IsTransfer(trace[i]) /\ trace[i].tx = SyncWrite

\* The transfers the coordinator makes as broadcasts
IsBroadcastWrite(e) ==
    IsTransfer(e)
        /\ e.tx \in {LockWrite, UnlockWrite, SyncWrite, SnapWrite, HardResetBytes}

\* Device d is driven low at some event before event i and not raised
\* from then up to event i
HeldLowUntil(d, i) ==
    \E j \in 1 .. (i - 1) :
        /\ trace[j].e = "low" /\ trace[j].d = d
        /\ \A k \in (j + 1) .. i : ~ (trace[k].e = "high" /\ trace[k].d = d)

\* C3: in every broadcast the CS lines of all N devices are low during the
\* transfer: devices 1..N-1 are driven low before device 0 drives its own
\* CS low, and none of them is raised before the transfer has ended.
C3_BroadcastSelectsAll ==
    \A i \in 1 .. Len(trace) :
        IsBroadcastWrite(trace[i]) =>
            /\ trace[i].d = 0
            /\ trace[i].sel = Dev
            /\ i > 1
            /\ trace[i - 1].e = "low" /\ trace[i - 1].d = 0
            /\ \A d \in Dev \ {0} : HeldLowUntil(d, i - 1)
            /\ i < Len(trace) => (trace[i + 1].e = "high" /\ trace[i + 1].d = 0)

C3_Witness ==
    /\ Done("powerdown")
    /\ N > 2
    /\ \E i \in 1 .. Len(trace) : IsBroadcastWrite(trace[i]) /\ trace[i].sel = Dev

\* The last event before event i that drives the CS of device d low, or 0
LastLow(d, i) ==
    LET js == {j \in 1 .. (i - 1) : trace[j].e = "low" /\ trace[j].d = d}
    IN  IF js = {} THEN 0 ELSE CHOOSE j \in js : \A k \in js : k <= j

\* Event i raises the CS of a device that was listening: its engine made
\* no transfer since it drove the CS low
EndsListening(i) ==
    /\ trace[i].e = "high"
    /\ trace[i].d # 0
    /\ \A k \in (LastLow(trace[i].d, i) + 1) .. i :
           ~ (IsTransfer(trace[k]) /\ trace[k].d = trace[i].d)

\* Between events j and i device 0 made a full CS cycle: low, transfer, high
FullCycleBetween(j, i) ==
    \E a, b, c \in (j + 1) .. (i - 1) :
        /\ a < b /\ b < c
        /\ trace[a].e = "low" /\ trace[a].d = 0
        /\ IsTransfer(trace[b]) /\ trace[b].d = 0
        /\ trace[c].e = "high" /\ trace[c].d = 0

\* C4: a listening CS line is raised only after device 0's transaction has
\* made its full CS cycle; no listening line goes high while CS0 is low.
C4_ListenersRaisedAfterPrimary ==
    \A i \in 1 .. Len(trace) :
        (trace[i].e = "high" /\ trace[i].d # 0) =>
            /\ 0 \notin trace[i].sel
            /\ EndsListening(i) => FullCycleBetween(LastLow(trace[i].d, i), i)

C4_Witness ==
    /\ Done("hard_reset")
    /\ N > 2
    /\ \E i \in 1 .. Len(trace) : EndsListening(i)

\* An operation that unlocks the configuration registers is running
Unlocking ==
    result = "pending" /\ op \in {"soft_reset", "powerdown", "wakeup", "adjust_sync"}

C6_PowerSequence ==
    (Done("powerdown") \/ Done("wakeup")) =>
        LET t == Transfers
        IN  /\ Len(t) = N + 2
            /\ t[1].tx = UnlockWrite /\ IsBroadcast(t[1])
            /\ \A i \in Dev :
                /\ t[i + 2].d = i
                /\ Len(t[i + 2].tx) = 2
                /\ t[i + 2].tx[1] = 64
                /\ t[i + 2].sel = {i}
            /\ t[N + 2].tx = LockWrite /\ IsBroadcast(t[N + 2])

C6_Witness == Done("wakeup") /\ N > 2 /\ Len(Transfers) = 5

\* C7: a successful soft_reset on N devices issues the broadcast unlock, then
\* one Config write [0x40, 0x40] per device in increasing index order,
\* whatever configuration is cached, and no Lock Enable write.
C7_SoftResetSequence ==
    Done("soft_reset") =>
        LET t == Transfers
        IN  /\ Len(t) = N + 1
            /\ t[1].tx = UnlockWrite /\ IsBroadcast(t[1])
            /\ \A i \in Dev :
                /\ t[i + 2].d = i
                /\ t[i + 2].tx = <<64, 64>>
                /\ t[i + 2].sel = {i}
            /\ \A j \in 1 .. Len(t) : t[j].tx # LockWrite

C7_Witness ==
    /\ Done("soft_reset")
    /\ N > 1
    /\ \E i \in Dev : Config_into(config[i]) \notin {0, 64}

\* The number of events of kind e on the CS of device d
PinEvents(e, d) == Cardinality({i \in 1 .. Len(trace) : trace[i].e = e /\ trace[i].d = d})

\* C8: a successful hard_reset makes exactly one transfer, of 8 zero bytes,
\* in one CS-low interval of device 0 during which devices 1..N-1 hold CS
\* low too; every CS line is driven low once and high once.
C8_HardResetBurst ==
    Done("hard_reset") =>
        LET t == Transfers
        IN  /\ Len(t) = 1
            /\ t[1].tx = HardResetBytes
            /\ IsBroadcast(t[1])
            /\ \A d \in Dev : PinEvents("low", d) = 1 /\ PinEvents("high", d) = 1
            /\ Len(trace) = 2 * N + 1
            /\ cs = [d \in Dev |-> "high"]

C8_Witness == Done("hard_reset") /\ N > 1 /\ Len(trace) > 4

\* Status0 read [0x4C, 0x00] of device 0 answered with reset_on = 1
IsBusyPoll0(e) ==
    IsTransfer(e) /\ e.d = 0 /\ e.tx = <<76, 0>> /\ e.rx[2] % 2 = 1

\* wait_reset of device 0 has seen reset_on = 1 on five polls: every such
\* poll is followed by one delay
FiveBusyPolls0 == op = "init" /\ PinEvents("delay", 0) = 5

\* C9: when five consecutive polls of device 0 show reset_on = 1, init
\* returns ResetTimeout after exactly five Status0 reads; no Config write is
\* issued, and devices 1..N-1 see neither a transfer nor any CS activity.
C9_InitTimeout ==
    FiveBusyPolls0 =>
        LET t == Transfers
        IN  /\ result \in {"pending", "ResetTimeout"}
            /\ result = "pending" => todo = << Step("ResetTimeout", 0, <<>>) >>
            /\ Len(t) = 5
            /\ \A i \in 1 .. 5 : IsBusyPoll0(t[i])
            /\ \A i \in 1 .. Len(trace) : trace[i].d = 0 /\ trace[i].sel \subseteq {0}

C9_Witness == FiveBusyPolls0 /\ result = "ResetTimeout" /\ N > 2

\* Counter0 write [0x60, _] or Counter1 write [0x68, _]
IsCounterWrite(e) == IsTransfer(e) /\ Len(e.tx) = 2 /\ e.tx[1] \in {96, 104}

\* The lowest index whose cached configuration has clkout_en = false, else 0
RefIndex ==
    LET src == {i \in Dev : ~ config[i].clkout_en}
    IN  IF src = {} THEN 0 ELSE CHOOSE i \in src : \A j \in src : i <= j

\* C10: a successful adjust_sync returns 0 at the reference index and, at
\* every other index, the drift of that device's snapshot against the
\* reference's; a device whose drift is within -1..1 gets no Counter write.
C10_DriftArray ==
    Done("adjust_sync") =>
        /\ DOMAIN out = Dev
        /\ out[RefIndex] = 0
        /\ \A i \in Dev \ {RefIndex} :
            /\ out[i] = AsI16(snapshot[i]) - AsI16(snapshot[RefIndex])
            /\ (out[i] >= -1 /\ out[i] <= 1) =>
                   \A k \in 1 .. Len(trace) :
                       ~ (IsCounterWrite(trace[k]) /\ trace[k].d = i)

C10_Witness ==
    /\ Done("adjust_sync")
    /\ N > 2
    /\ RefIndex # 0
    /\ \A i \in Dev : out[i] = 0

\* The burst read of 9 bytes from Iwv: [0x04, 0, 0, 0, 0, 0, 0, 0, 0, 0]
BurstReadBytes == <<4, 0, 0, 0, 0, 0, 0, 0, 0, 0>>

IsBurstRead(e) == IsTransfer(e) /\ e.tx = BurstReadBytes

\* The devices other than the reference
Others == Dev \ {RefIndex}

\* C11: a successful adjust_sync issues the broadcast unlock, the broadcast
\* snap, the snapshot burst read of the reference device, then for each
\* other device in increasing index order its snapshot burst read followed
\* by its Counter writes (if any), and last the broadcast lock.
C11_AdjustSyncOrder ==
    Done("adjust_sync") =>
        LET t == Transfers
            n == Len(t)
            body == 4 .. (n - 1)
        IN  /\ n >= 3 + Cardinality(Others) + 1
            /\ t[1].tx = UnlockWrite /\ IsBroadcast(t[1])
            /\ t[2].tx = SnapWrite /\ IsBroadcast(t[2])
            /\ IsBurstRead(t[3]) /\ t[3].d = RefIndex /\ t[3].sel = {RefIndex}
            /\ t[n].tx = LockWrite /\ IsBroadcast(t[n])
            /\ \A j \in body :
                /\ t[j].d \in Others
                /\ t[j].sel = {t[j].d}
                /\ IsBurstRead(t[j]) \/ IsCounterWrite(t[j])
                /\ IsCounterWrite(t[j]) => (j - 1 \in body /\ t[j - 1].d = t[j].d)
                /\ IsBurstRead(t[j]) => (j - 1 \in body => t[j - 1].d < t[j].d)
            /\ \A d \in Others : \E j \in body : IsBurstRead(t[j]) /\ t[j].d = d
            /\ \A j \in 1 .. n : IsCounterWrite(t[j]) => j \in body

C11_Witness ==
    /\ Done("adjust_sync")
    /\ N > 2
    /\ RefIndex = 2
    /\ Len(Transfers) = 6

\* The number of burst reads that engine d made in the operation
BurstReadsBy(d) ==
    Cardinality({i \in 1 .. Len(trace) : IsBurstRead(trace[i]) /\ trace[i].d = d})

\* C12: in adjust_sync the reference is the lowest index whose cached
\* configuration has clkout_en = false, or 0 when there is none; it gets
\* exactly one burst read and no Counter write, and the broadcast writes
\* go through device 0 also when the reference is another device.
C12_ReferenceDevice ==
    op = "adjust_sync" =>
        /\ \A i \in 1 .. Len(trace) :
            /\ IsBroadcastWrite(trace[i]) => trace[i].d = 0
            /\ IsCounterWrite(trace[i]) => trace[i].d # RefIndex
            /\ (IsBurstRead(trace[i]) /\ \A j \in 1 .. (i - 1) : ~ IsBurstRead(trace[j]))
                   => trace[i].d = RefIndex
        /\ BurstReadsBy(RefIndex) <= 1
        /\ result = "Ok" => BurstReadsBy(RefIndex) = 1

C12_Witness ==
    /\ Done("adjust_sync")
    /\ N > 2
    /\ RefIndex = 2
    /\ \A i \in Dev \ {2} : config[i].clkout_en

\* get_cnt_snapshot of engine d has returned in the running adjust_sync: its
\* burst read is in the trace and the decoding step is no longer ahead
SnapshotTaken(d) ==
    /\ op = "adjust_sync"
    /\ result \in {"pending", "Ok"}
    /\ BurstReadsBy(d) > 0
    /\ \A i \in 1 .. Len(todo) : ~ (todo[i].k \in {"frame", "cnt_snapshot"} /\ todo[i].d = d)

\* The last transfer engine d made in the operation
LastTransferBy(d) ==
    LET js == {j \in 1 .. Len(trace) : IsTransfer(trace[j]) /\ trace[j].d = d}
    IN  trace[CHOOSE j \in js : \A k \in js : k <= j]

\* C13 as claimed: the burst read of get_cnt_snapshot is long enough to
\* reach the frame offsets 13 and 14 of the counter snapshot, and the value
\* returned is the big-endian u16 of the two bytes the device answered there.
C13_SnapshotFromResponse ==
    \A d \in Dev :
        (SnapshotTaken(d) /\ ~ IsCounterWrite(LastTransferBy(d))) =>
            LET e == LastTransferBy(d)
            IN  /\ Len(e.rx) >= 15
                /\ snapshot[d] = U16_from_be_bytes(e.rx[14], e.rx[15])

\* get_cnt_snapshot has returned for some engine, with an answer of the bus
\* in which the sample bytes are not all zero
C13_Witness ==
    \E d \in Dev :
        /\ SnapshotTaken(d)
        /\ IsBurstRead(LastTransferBy(d))
        /\ LastTransferBy(d).rx[2] # 0

\* The transfers init makes for one device, by kind
InitKind(e) ==
    CASE e.tx = <<76, 0>>                    -> "status0"
      [] Len(e.tx) = 2 /\ e.tx[1] = 64       -> "config_write"
      [] e.tx = <<68, 0>>                    -> "config_read"
      [] Len(e.tx) = 2 /\ e.tx[1] = 112      -> "emi_write"
      [] e.tx = <<116, 0>>                   -> "emi_read"
      [] e.tx = <<196, 0>>                   -> "tempos"
      [] OTHER                               -> "other"

\* The kinds that may follow a transfer of the same device
InitFollows(e) ==
    CASE InitKind(e) = "status0" ->
             IF Status0_from(e.rx[2]).reset_on THEN {"status0"} ELSE {"config_write"}
      [] InitKind(e) = "config_write" -> {"config_read"}
      [] InitKind(e) = "config_read"  -> {"emi_write"}
      [] InitKind(e) = "emi_write"    -> {"emi_read"}
      [] InitKind(e) = "emi_read"     -> {"tempos"}
      [] OTHER                        -> {}

\* The transfers of the per-device part of init: all but SyncSnap and Lock
IsOwnTransfer(e) == IsTransfer(e) /\ e.tx[1] \notin {80, 88}

OwnTransfers == SelectSeq(trace, IsOwnTransfer)

\* C14: within init the devices are initialised one after another in index
\* order, and the transfers of one device are: Status0 reads until
\* reset_on = 0, Config write, Config readback, EmiCtrl write, EmiCtrl
\* readback, then the optional Tempos read; no transfer of the next device
\* comes before the last transfer of the device before it.
C14_InitOrder ==
    op = "init" =>
        LET p == OwnTransfers
        IN  /\ \A j \in 1 .. Len(p) :
                /\ p[j].sel = {p[j].d}
                /\ InitKind(p[j]) # "other"
                /\ InitKind(p[j]) = "config_write" => p[j].tx[2] = Config_into(config[p[j].d])
            /\ Len(p) > 0 => (p[1].d = 0 /\ InitKind(p[1]) = "status0")
            /\ \A j \in 1 .. (Len(p) - 1) :
                \/ /\ p[j + 1].d = p[j].d
                   /\ InitKind(p[j + 1]) \in InitFollows(p[j])
                \/ /\ p[j + 1].d = p[j].d + 1
                   /\ InitKind(p[j]) \in {"emi_read", "tempos"}
                   /\ InitKind(p[j + 1]) = "status0"
            /\ result = "Ok" =>
                /\ Len(p) > 0
                /\ p[Len(p)].d = N - 1
                /\ InitKind(p[Len(p)]) \in {"emi_read", "tempos"}
                /\ \A j \in 1 .. Len(trace) :
                       (IsTransfer(trace[j]) /\ ~ IsOwnTransfer(trace[j])) =>
                           \A k \in 1 .. Len(trace) : IsOwnTransfer(trace[k]) => k < j

C14_Witness ==
    /\ Done("init")
    /\ N > 2
    /\ \E j \in 1 .. Len(trace) : IsTransfer(trace[j]) /\ InitKind(trace[j]) = "tempos"
    /\ \E j \in 1 .. Len(trace) : IsBusyPoll0(trace[j])
    /\ \E d \in Dev : \A j \in 1 .. Len(trace) :
           ~ (IsTransfer(trace[j]) /\ trace[j].d = d /\ InitKind(trace[j]) = "tempos")

\* The 24-bit two's-complement value of the bytes b1 b2 b3, big-endian
Sample24(b1, b2, b3) ==
    LET u == b1 * 65536 + b2 * 256 + b3
    IN  IF b1 >= 128 THEN u - 16777216 ELSE u

\* The three samples in a ten-byte answer r to the burst read from Iwv
SamplesOf(r) ==
    [iwv  |-> Sample24(r[2], r[3], r[4]),
     v1wv |-> Sample24(r[5], r[6], r[7]),
     v2wv |-> Sample24(r[8], r[9], r[10])]

\* C15: a successful get_raw_measurement on N devices makes exactly N
\* transfers, one per device in increasing index order, each the command
\* byte 0x04 followed by nine zero bytes; element i of the result is decoded
\* from the answer of device i; no Lock, Config, SyncSnap or Counter write.
C15_RawMeasurementTransfers ==
    Done("get_raw_measurement") =>
        LET t == Transfers
        IN  /\ Len(t) = N
            /\ DOMAIN out = Dev
            /\ \A i \in Dev :
                /\ t[i + 1].d = i
                /\ t[i + 1].sel = {i}
                /\ t[i + 1].tx = BurstReadBytes
                /\ Len(t[i + 1].tx) = 10
                /\ out[i] = SamplesOf(t[i + 1].rx)

C15_Witness ==
    /\ Done("get_raw_measurement")
    /\ N > 2
    /\ Len(Transfers) = 3
    /\ Transfers[1].rx # Transfers[2].rx
    /\ out[0].iwv = 388319 /\ out[0].v1wv = 399132 /\ out[0].v2wv = 3653271
    /\ out[1].iwv < 0

\* (b OR 0x04) AND 0xFE on a byte
PowerdownByte(b) ==
    LET set2 == IF (b \div 4) % 2 = 1 THEN b ELSE b + 4
    IN  set2 - (set2 % 2)

\* The steps of one unchecked write of the byte b to Config by engine 0: CS
\* low, the transfer [0x40, b], CS high, and no readback [0x44, 0x00]
UncheckedConfigWrite(b) ==
    << [k |-> "set_low", d |-> 0, a |-> <<>>],
       [k |-> "transfer", d |-> 0, a |-> <<64, b>>],
       [k |-> "set_high", d |-> 0, a |-> <<>>] >>

\* C17: for every cached configuration c, powerdown writes to Config the
\* byte (encode(c) OR 0x04) AND 0xFE and wakeup writes encode(c); both are
\* unchecked writes, with no Config readback after them.
C17_PowerBytes ==
    /\ op = "Ade791x::powerdown" =>
           out.steps = UncheckedConfigWrite(PowerdownByte(Config_into(out.cached)))
    /\ op = "Ade791x::wakeup" =>
           out.steps = UncheckedConfigWrite(Config_into(out.cached))

C17_Witness ==
    /\ op = "Ade791x::powerdown"
    /\ out.cached.clkout_en /\ out.cached.bw /\ out.cached.adc_freq = "KHz1"
    /\ ~ out.cached.pwrdwn_en
    /\ out.steps[2].a = <<64, 180>>

\* C16: the samples decoded from a ten-byte answer r are the 24-bit two's
\* complement values of r[1..4], r[4..7] and r[7..10] read big-endian and
\* sign-extended: each lies in -2^23 .. 2^23 - 1, is negative exactly when
\* the top bit of its first byte is set, and does not depend on the byte
\* before its three bytes.
C16_SignExtendedSamples ==
    op = "BurstRead::from" =>
        /\ out = SamplesOf(rx)
        /\ \A f \in {"iwv", "v1wv", "v2wv"} :
               out[f] >= -8388608 /\ out[f] <= 8388607
        /\ (out.iwv < 0) = (rx[2] >= 128)
        /\ (out.v1wv < 0) = (rx[5] >= 128)
        /\ (out.v2wv < 0) = (rx[8] >= 128)

C16_Witness ==
    /\ op = "BurstRead::from"
    /\ rx[1] = 255 /\ rx[2] = 127 /\ rx[4] = 255 /\ rx[5] = 128 /\ rx[7] = 1 /\ rx[8] = 255
    /\ out.iwv > 0 /\ out.v1wv < 0 /\ out.v2wv < 0

\* b AND 0xFD on a byte
ClearBit1(b) == b - 2 * ((b \div 2) % 2)

\* C18: for every byte b, encoding the Config decoded from b gives b on the
\* bits 0, 2, 3, 4, 5, 6, 7, that is b AND 0xFD; the two bits of adc_freq
\* come back for all four values, and 0b11 decodes to 1 kHz.
C18_ConfigRoundTrip ==
    op = "Config::from" =>
        /\ out.encoded = ClearBit1(rx[1])
        /\ (out.encoded \div 16) % 4 = (rx[1] \div 16) % 4
        /\ (rx[1] \div 16) % 4 = 3 <=> out.decoded.adc_freq = "KHz1"

C18_Witness ==
    /\ op = "Config::from"
    /\ rx[1] = 255
    /\ out.encoded = 253
    /\ out.decoded.adc_freq = "KHz1"

\* C19 as claimed: bits 1 and 5 of the encoding of every Config value are
\* both zero.
C19_Bits1And5Zero ==
    op = "Config::from" =>
        Bit(out.encoded, 1) = 0 /\ Bit(out.encoded, 5) = 0

\* C19 as amended: bit 1 of the encoding of every Config value is zero, and
\* bit 5 is the high bit of adc_freq: it is set exactly when adc_freq is
\* 2 kHz or 1 kHz.
C19_Bit1ZeroBit5AdcFreq ==
    op = "Config::from" =>
        /\ Bit(out.encoded, 1) = 0
        /\ Bit(out.encoded, 5) = 1 <=> out.decoded.adc_freq \in {"KHz2", "KHz1"}

C19_Witness ==
    /\ op = "Config::from"
    /\ out.decoded.adc_freq = "KHz2"
    /\ ~ out.decoded.clkout_en
    /\ out.encoded = 32

\* C20: for every byte b, encoding the EmiCtrl decoded from b gives exactly
\* b, slot i being bit i, and the default EmiCtrl encodes to 0xFF.
C20_EmiCtrlRoundTrip ==
    /\ EmiCtrl_into(EmiCtrl_default) = 255
    /\ op = "EmiCtrl::from" =>
        /\ out.encoded = rx[1]
        /\ \A i \in 0 .. 7 : out.decoded[i] = (Bit(rx[1], i) = 1)

C20_Witness ==
    /\ op = "EmiCtrl::from"
    /\ rx[1] = 165
    /\ out.decoded[0] /\ ~ out.decoded[1] /\ out.decoded[7]
    /\ out.encoded = 165

\* C21: the aux field of every Measurement returned by get_measurement is a
\* Temperature if and only if the chip is an ADE7912 or the cached
\* configuration has temp_en = true, and a Voltage otherwise, before as well
\* as after init and whatever the calibration.
C21_AuxKind ==
    Done("get_measurement") =>
        \A i \in Dev :
            /\ out[i].aux \in {"Temperature", "Voltage"}
            /\ out[i].aux = "Temperature" <=> (chip[i] = "ADE7912" \/ config[i].temp_en)

C21_Witness ==
    /\ Done("get_measurement")
    /\ N > 2
    /\ history = "init_ok"
    /\ \E i \in Dev : chip[i] = "ADE7913" /\ config[i].temp_en /\ out[i].aux = "Temperature"
    /\ \E i \in Dev : chip[i] = "ADE7912" /\ calibration[i].offset_aux = Some(7)

\* The errors of the pins and of the bus
BusErrors == {"PinError", "SpiError"}

\* The transfers of an operation that stopped early are the first transfers
\* of its successful run, each made once: powerdown, wakeup and soft_reset
\* start with the unlock and go through the devices in index order, the
\* measurement getters go through the devices in index order
AbortedPrefix ==
    LET t == Transfers
    IN  /\ op \in {"powerdown", "wakeup", "soft_reset"} =>
            /\ Len(t) <= N + 2
            /\ \A j \in 1 .. Len(t) :
                IF j = 1 THEN t[j].tx = UnlockWrite
                ELSE IF j <= N + 1 THEN t[j].d = j - 2 /\ t[j].tx[1] = 64
                ELSE t[j].tx = LockWrite /\ op # "soft_reset"
        /\ op \in {"get_raw_measurement", "get_measurement"} =>
            /\ Len(t) <= N
            /\ \A j \in 1 .. Len(t) : t[j].d = j - 1 /\ IsBurstRead(t[j])

\* C22: the first pin or SPI error ends the operation and is what it
\* returns: the failing step leaves nothing of the sequence to run, appends
\* no transfer and moves no CS line, no transfer follows it for any device
\* (none for the later devices, no closing Lock write) and none is repeated.
C22_FirstErrorAborts ==
    /\ [](result \in BusErrors => (todo = <<>> /\ AbortedPrefix))
    /\ [][result' \in BusErrors =>
            /\ todo' = <<>>
            /\ trace' = trace
            /\ cs' = cs
            /\ lastLock' = lastLock
            /\ op' = op]_vars

C22_Witness ==
    /\ result = "SpiError"
    /\ op = "powerdown"
    /\ N > 2
    /\ Len(Transfers) = 2
    /\ cs[1] = "low"
    /\ lastLock = LockOp_Disable

\* The devices whose applied configuration drives DREADY: clkout_en = false
DreadySources == {i \in Dev : is_dr_source(config[i])}

\* C23 as claimed: after a successful init at most one device has
\* clkout_en = false in its applied configuration, and that device is the
\* one chosen as the synchronization reference.
C23_SingleDreadySource ==
    Done("init") =>
        /\ Cardinality(DreadySources) <= 1
        /\ \A i \in DreadySources : i = ref_adc_index

\* init has succeeded on a configuration in which every device drives DREADY
C23_Witness ==
    /\ Done("init")
    /\ N > 2
    /\ DreadySources = Dev
    /\ ref_adc_index = 0

\* The operation has returned without an error of the pins or the bus
ReturnedWithoutBusError == result \notin ({"pending", "none"} \cup BusErrors)

\* C24: in every SPI transaction of a device the CS of that device is
\* driven low by the transaction before the transfer, is low during the
\* transfer, and is driven high after it; no transfer is issued while the
\* CS of the addressed device has not been driven low by its transaction.
C24_CsFramesTransfer ==
    \A i \in 1 .. Len(trace) :
        IsTransfer(trace[i]) =>
            /\ i > 1
            /\ trace[i - 1].e = "low" /\ trace[i - 1].d = trace[i].d
            /\ trace[i].d \in trace[i].sel
            /\ i < Len(trace) =>
                   /\ trace[i + 1].e = "high" /\ trace[i + 1].d = trace[i].d
                   /\ trace[i].d \notin trace[i + 1].sel
            /\ ReturnedWithoutBusError => i < Len(trace)

C24_Witness ==
    /\ Done("get_measurement")
    /\ N > 2
    /\ Len(trace) = 9
    /\ history = "init_ok"

\* Event i lies in the window of the broadcast write at event j: only
\* CS events separate the two
InBroadcastWindow(i, j) ==
    /\ IsBroadcastWrite(trace[j])
    /\ \A k \in 1 .. Len(trace) :
           ((i <= k /\ k < j) \/ (j < k /\ k <= i))
               => trace[k].e \in {"low", "high"}

\* C25: while no pin or SPI error occurs, during every transfer that is
\* not a broadcast (register read, Config, EmiCtrl or Counter write, burst
\* read) exactly one CS line is low, that of the addressed device; two
\* devices are selected at once only around a broadcast write, and all
\* CS lines are high again when the operation has returned.
C25_OneSelectedOutsideBroadcast ==
    /\ \A i \in 1 .. Len(trace) :
           (IsTransfer(trace[i]) /\ ~IsBroadcastWrite(trace[i]))
               => trace[i].sel = {trace[i].d}
    /\ ReturnedWithoutBusError =>
           /\ Selected(cs) = {}
           /\ \A i \in 1 .. Len(trace) :
                  Cardinality(trace[i].sel) > 1
                      => \E j \in 1 .. Len(trace) : InBroadcastWindow(i, j)

C25_Witness ==
    /\ Done("wakeup")
    /\ N > 2
    /\ \E i \in 1 .. Len(trace) :
           IsTransfer(trace[i]) /\ ~IsBroadcastWrite(trace[i]) /\ trace[i].d = 2
    /\ \E i \in 1 .. Len(trace) :
           IsBroadcastWrite(trace[i]) /\ trace[i].sel = Dev

\* Event i is a Status0 read [0x4C, 0x00] of device d
IsPoll(i, d) ==
    IsTransfer(trace[i]) /\ trace[i].d = d /\ trace[i].tx = <<76, 0>>

\* The Status0 reads of device d among the first n events
PollsUpTo(d, n) == {i \in 1 .. n : IsPoll(i, d)}

\* The answer to the Status0 read at event i has reset_on = 1
ShowsResetOn(i) == Status0_from(trace[i].rx[2]).reset_on

\* C26: if the first Status0 read of a device that shows reset_on = 0 is
\* the k-th, wait_reset makes exactly k reads and k - 1 delays of 100 ms and
\* returns Ok: init goes on with something else than a poll or a delay.
\* wait_reset never makes more than 5 reads, and a delay is requested only
\* after a read that showed reset_on = 1.
C26_WaitReset ==
    \A d \in Dev :
        LET polls == PollsUpTo(d, Len(trace))
        IN  /\ Cardinality(polls) <= ResetPolls
            /\ \A i \in 1 .. Len(trace) :
                   (trace[i].e = "delay" /\ trace[i].d = d) =>
                       /\ trace[i].tx = <<100>>
                       /\ i > 2
                       /\ IsPoll(i - 2, d) /\ ShowsResetOn(i - 2)
                       /\ trace[i - 1].e = "high" /\ trace[i - 1].d = d
            /\ \A i \in polls :
                   ~ ShowsResetOn(i) =>
                       LET k == Cardinality(PollsUpTo(d, i))
                       IN  /\ k \in 1 .. ResetPolls
                           /\ \A j \in PollsUpTo(d, i - 1) : ShowsResetOn(j)
                           /\ Cardinality(polls) = k
                           /\ PinEvents("delay", d) = k - 1
                           /\ result = "ResetTimeout" =>
                                  \E j \in Dev :
                                      j > d /\ PinEvents("delay", j) = ResetPolls
                           /\ i + 2 <= Len(trace) =>
                                  /\ trace[i + 2].e # "delay"
                                  /\ ~ IsPoll(i + 2, d)

C26_Witness ==
    /\ Done("init")
    /\ N > 1
    /\ Cardinality(PollsUpTo(1, Len(trace))) = 5
    /\ PinEvents("delay", 1) = 4
    /\ Cardinality(PollsUpTo(0, Len(trace))) = 1

OtherAt(k) == IF k - 1 < RefIndex THEN k - 1 ELSE k

Adjusted == op = "Ade791x::adjust_sync" /\ result = "Ok"

\* c0 as stated: 511, 1023, 2047, 4095 for 8, 4, 2, 1 kHz
StatedC0(f) ==
    CASE f = "KHz8" -> 511 [] f = "KHz4" -> 1023 [] f = "KHz2" -> 2047 [] f = "KHz1" -> 4095

\* The preload as stated, for the snapshot c against cref: cref + c0 - c
\* when c > cref, else cref - c, as a 16-bit value
StatedAdj(c, cref, c0) ==
    (IF c > cref THEN cref + c0 - c ELSE cref - c) % 65536

\* C29: when the engine's adjust_sync finds |drift| > 1, the preload is
\* adj = cref + c0 - c if c > cref and cref - c otherwise, with c0 = 511,
\* 1023, 2047 or 4095 for 8, 4, 2 or 1 kHz, and it is programmed by exactly
\* two writes: Counter0 [0x60, low byte of adj], then Counter1 [0x68, high
\* byte of adj]; with |drift| <= 1 nothing is written.  For snapshots within
\* the counter range 0 .. c0 the computation of adj never overflows.
C29_PreloadWrites ==
    LET c == snapshot[1]
        cref == snapshot[0]
        c0 == StatedC0(config[1].adc_freq)
        adj == StatedAdj(c, cref, c0)
        t == Transfers
    IN  /\ Adjusted =>
               IF out[1] > 1 \/ out[1] < -1
               THEN /\ Len(t) = 2
                    /\ t[1].tx = <<96, adj % 256>> /\ t[1].d = 1
                    /\ t[2].tx = <<104, adj \div 256>> /\ t[2].d = 1
               ELSE Len(t) = 0
        /\ (op = "Ade791x::adjust_sync" /\ c <= c0 /\ cref <= c0) =>
               /\ result \notin Panics
               /\ (IF c > cref THEN cref + c0 - c ELSE cref - c) = adj

C29_Witness ==
    /\ Adjusted
    /\ snapshot[1] = 511 /\ snapshot[0] = 3
    /\ config[1].adc_freq = "KHz4"
    /\ Len(Transfers) = 2
    /\ Transfers[1].tx = <<96, 3>>
    /\ Transfers[2].tx = <<104, 2>>

InCounterRange ==
    /\ op = "Ade791x::adjust_sync"
    /\ snapshot[1] <= StatedC0(config[1].adc_freq)
    /\ snapshot[0] <= StatedC0(config[1].adc_freq)

\* The preload that the two Counter writes of the trace program
WrittenAdj == Transfers[1].tx[2] + 256 * Transfers[2].tx[2]

\* C31: for every adc_freq and all c and cref in 0 .. c0 the u16 arithmetic
\* of the engine's adjust_sync neither overflows nor underflows; whenever
\* a correction is written the preload lies in 0 .. c0, and the sign of the
\* drift agrees with the arm taken: drift > 1 exactly when c > cref.
C31_PreloadInRange ==
    InCounterRange =>
        /\ result \notin Panics
        /\ (result = "Ok" /\ Len(Transfers) = 2) =>
               /\ WrittenAdj \in 0 .. StatedC0(config[1].adc_freq)
               /\ out[1] > 1 <=> snapshot[1] > snapshot[0]
               /\ out[1] < -1 <=> snapshot[1] < snapshot[0]
        /\ (result = "Ok" /\ Len(Transfers) = 0) => out[1] \in -1 .. 1

C31_Witness ==
    /\ InCounterRange
    /\ result = "Ok"
    /\ config[1].adc_freq = "KHz8"
    /\ snapshot[1] = 511 /\ snapshot[0] = 0
    /\ Len(Transfers) = 2
    /\ WrittenAdj = 0

\* Event i is the readback of a checked write of Config [0x44, 0] or of
\* EmiCtrl [0x74, 0]; the write [0x40, b] or [0x70, b] is three events
\* before it (transfer, high, low, transfer)
IsReadback(i) ==
    /\ IsTransfer(trace[i])
    /\ trace[i].tx \in {<<68, 0>>, <<116, 0>>}
    /\ i > 3
    /\ IsTransfer(trace[i - 3])
    /\ trace[i - 3].d = trace[i].d
    /\ Len(trace[i - 3].tx) = 2
    /\ trace[i - 3].tx[1] = trace[i].tx[1] - 4

\* The readback at event i differs from the byte written
Mismatch(i) == IsReadback(i) /\ trace[i].rx[2] # trace[i - 3].tx[2]

\* C32: when in a device's init the readback after the Config write or
\* after the EmiCtrl write differs from the byte written, init returns
\* RegisterContentMismatch at once: after the readback only the CS of that
\* device is raised, no later transfer is issued (no EmiCtrl write, no
\* Tempos read), no further device is initialised, and there is neither a
\* sync nor a lock.
C32_MismatchAbortsInit ==
    \A i \in 1 .. Len(trace) :
        (op = "init" /\ Mismatch(i)) =>
            /\ Len(trace) <= i + 1
            /\ Len(trace) = i + 1 =>
                   trace[i + 1].e = "high" /\ trace[i + 1].d = trace[i].d
            /\ \A j \in 1 .. Len(trace) :
                   /\ trace[j].d <= trace[i].d
                   /\ trace[j].tx \notin {SyncWrite, LockWrite}
            /\ result \in {"pending", "RegisterContentMismatch", "PinError"}
            /\ result = "PinError" => Len(trace) = i
            /\ result = "RegisterContentMismatch" => Len(trace) = i + 1 /\ todo = <<>>
            /\ (result = "pending" /\ Len(trace) = i + 1) =>
                   \/ /\ Head(todo).k = "check_content"
                      /\ Head(todo).a[1] = trace[i - 3].tx[2]
                   \/ todo = << Step("RegisterContentMismatch", trace[i].d, <<>>) >>

C32_Witness ==
    /\ op = "init"
    /\ result = "RegisterContentMismatch"
    /\ N > 2
    /\ Mismatch(Len(trace) - 1)
    /\ trace[Len(trace) - 1].d = 1
    /\ trace[Len(trace) - 1].tx = <<116, 0>>

\* The bytes of the writes that the coordinator makes as a broadcast
BroadcastBytes == {LockWrite, UnlockWrite, SyncWrite, SnapWrite, HardResetBytes}

\* C33: when the SPI transfer of a transaction fails, the operation
\* returns SpiError with the CS of the addressed device still low: the
\* failing step does not touch the CS lines.  When the failing transfer is
\* the primary write of a broadcast, the CS lines of the listening devices
\* 1 .. N - 1 are low as well when the error is returned.
C33_SpiErrorLeavesCsLow ==
    /\ [](result = "SpiError" =>
             /\ Len(trace) > 0
             /\ trace[Len(trace)].e = "low"
             /\ cs[trace[Len(trace)].d] = "low"
             /\ Selected(cs) = trace[Len(trace)].sel)
    /\ [][(result # "SpiError" /\ result' = "SpiError") =>
             /\ Head(todo).k = "transfer"
             /\ cs' = cs
             /\ cs[Head(todo).d] = "low"
             /\ Head(todo).a \in BroadcastBytes =>
                    /\ Head(todo).d = 0
                    /\ \A i \in Dev : cs'[i] = "low"]_vars

C33_Witness ==
    /\ result = "SpiError"
    /\ op = "wakeup"
    /\ N > 2
    /\ Len(Transfers) = 0
    /\ Selected(cs) = Dev

\* The events at which device d reads Tempos: [0xC4, 0x00]
TemposReads(d) ==
    {i \in 1 .. Len(trace) :
        IsTransfer(trace[i]) /\ trace[i].d = d /\ trace[i].tx = <<196, 0>>}

\* The transfer before event i, when there is one
TransferBefore(i) ==
    LET before == {j \in 1 .. (i - 1) : IsTransfer(trace[j])}
    IN  trace[CHOOSE j \in before : \A k \in before : k <= j]

\* The arguments of the init that has returned: those whose configurations
\* are the cached ones
InitGiven == {inp \in InitInputs : inp.config = config}

\* C34: the init of a device reads Tempos [0xC4, 0x00] if and only if the
\* calibration given has no aux offset and (the chip is ADE7912 or the
\* configuration given has temp_en); the read happens once, directly after
\* the EmiCtrl readback, and the cached aux offset is the byte returned as
\* a signed 8-bit integer; otherwise an unset aux offset becomes 0, a given
\* one is kept, and Tempos is not read.
C34_TemposRead ==
    /\ op = "init" =>
           \A d \in Dev : \A i \in TemposReads(d) :
               /\ TemposReads(d) = {i}
               /\ chip[d] = "ADE7912" \/ config[d].temp_en
               /\ TransferBefore(i).tx = <<116, 0>> /\ TransferBefore(i).d = d
               /\ calibration[d].offset_aux \in {None, Some(AsI8(trace[i].rx[2]))}
    /\ Done("init") =>
           /\ InitGiven # {}
           /\ \A inp \in InitGiven : \A d \in Dev :
                  LET unset == inp.calibration[d].offset_aux = None
                      temp == chip[d] = "ADE7912" \/ inp.config[d].temp_en
                  IN  /\ TemposReads(d) # {} <=> (unset /\ temp)
                      /\ (unset /\ temp) =>
                             \A i \in TemposReads(d) :
                                 calibration[d].offset_aux = Some(AsI8(trace[i].rx[2]))
                      /\ (unset /\ ~ temp) => calibration[d].offset_aux = Some(0)
                      /\ ~ unset => calibration[d].offset_aux = inp.calibration[d].offset_aux

C34_Witness ==
    /\ Done("init")
    /\ N > 2
    /\ chip[1] = "ADE7913" /\ config[1].temp_en
    /\ TemposReads(1) # {}
    /\ calibration[1].offset_aux = Some(-94)
    /\ chip[0] = "ADE7912" /\ TemposReads(0) = {}
    /\ calibration[0].offset_aux = Some(7)

\* The operations other than init
NotInit ==
    {"hard_reset", "soft_reset", "powerdown", "wakeup", "adjust_sync",
     "get_raw_measurement", "get_measurement"}

\* C35: powerdown, wakeup, soft_reset, hard_reset, adjust_sync and the
\* measurement getters leave the cached configuration and calibration of
\* every device unchanged, from their call to their return; so after any
\* sequence of them wakeup writes, for each device, the encoding of the
\* configuration that the device's last init stored.
C35_CacheUnchanged ==
    /\ [][op' \in NotInit => (config' = config /\ calibration' = calibration)]_vars
    /\ [](op = "wakeup" =>
             \A i \in 1 .. Len(trace) :
                 (IsTransfer(trace[i]) /\ trace[i].tx[1] = 64) =>
                     /\ trace[i].tx = <<64, Config_into(config[trace[i].d])>>
                     /\ \E inp \in InitInputs :
                            config[trace[i].d] = inp.config[trace[i].d])

C35_Witness ==
    /\ Done("wakeup")
    /\ N > 2
    /\ history = "init_ok"
    /\ config[2].temp_en /\ config[2].adc_freq = "KHz2"
    /\ \E i \in 1 .. Len(trace) :
           /\ IsTransfer(trace[i]) /\ trace[i].d = 2
           /\ trace[i].tx = <<64, 169>>

\* The errors of a register that may not be accessed as asked
RegisterErrors == {"ReadOnlyRegister", "WriteOnlyRegister", "BurstReadNotPermitted"}

\* Addresses of the registers: all, those that may be written (Config,
\* Lock, SyncSnap, Counter0, Counter1, EmiCtrl), those that may not be read
\* (Lock, SyncSnap)
AllAddrs == {0, 1, 2, 4, 5, 7, 8, 9, 10, 11, 12, 13, 14, 15, 24}
WritableAddrs == {8, 10, 11, 12, 13, 14}
WriteOnlyAddrs == {10, 11}

\* C36: whatever the sequence of operations and the answers of the bus, no
\* operation returns ReadOnlyRegister, WriteOnlyRegister or
\* BurstReadNotPermitted, and none is about to: every register written is
\* writable, every register read is readable, every burst read starts at
\* Iwv.
C36_NoRegisterError ==
    /\ result \notin RegisterErrors
    /\ \A k \in 1 .. Len(todo) : todo[k].k \notin RegisterErrors
    /\ \A i \in 1 .. Len(trace) :
           IsTransfer(trace[i]) =>
               LET tx == trace[i].tx
               IN  /\ Len(tx) \in {2, 8, 10}
                   /\ Len(tx) = 2 =>
                          \/ tx[1] % 8 = 0 /\ tx[1] \div 8 \in WritableAddrs
                          \/ /\ tx[1] % 8 = 4
                             /\ tx[1] \div 8 \in AllAddrs \ WriteOnlyAddrs
                   /\ Len(tx) = 8 => tx = HardResetBytes
                   /\ Len(tx) = 10 => tx = BurstReadBytes

C36_Witness ==
    /\ Done("adjust_sync")
    /\ N = 2
    /\ history = "init_ok"
    /\ \E i \in 1 .. Len(trace) : IsBurstRead(trace[i]) /\ trace[i].d = 1
    /\ \E i \in 1 .. Len(trace) : trace[i].tx = SnapWrite

\* Device d has taken part in the running or last operation
HasEvent(d) == \E i \in 1 .. Len(trace) : trace[i].d = d

\* The operation has returned an error
Failed == result \notin {"none", "pending", "Ok"}

\* C37: the init of a device stores the configuration and calibration
\* given before it polls for reset, and nothing is rolled back when init
\* fails: when the coordinator's init fails at device i, devices 0 .. i
\* hold the configuration given and devices i + 1 .. N - 1 the one they
\* held before; powerdown and wakeup called afterwards write the bytes of
\* what is cached.
C37_StoredBeforePoll ==
    /\ [][\A d \in Dev :
              config'[d] # config[d] =>
                  /\ op = "init" /\ Running
                  /\ Head(todo).k = "store" /\ Head(todo).d = d
                  /\ config'[d] = Head(todo).a[1]
                  /\ calibration'[d] = Head(todo).a[2]
                  /\ ~ HasEvent(d)
                  /\ \A e \in Dev \ {d} :
                         config'[e] = config[e] /\ calibration'[e] = calibration[e]]_vars
    /\ [][(result = "pending" /\ result' # "pending") =>
              (config' = config /\ calibration' = calibration)]_vars
    /\ [](op = "init" =>
             \E inp \in InitInputs :
                 \A d \in Dev : HasEvent(d) => config[d] = inp.config[d])
    /\ [](op \in {"powerdown", "wakeup"} =>
             \A i \in 1 .. Len(trace) :
                 (IsTransfer(trace[i]) /\ trace[i].tx[1] = 64) =>
                     trace[i].tx[2] =
                         IF op = "wakeup"
                         THEN Config_into(config[trace[i].d])
                         ELSE PowerdownByte(Config_into(config[trace[i].d])))

\* init of all three devices has succeeded with temp_en, a second init
\* with other configurations has failed after device 0: device 0 holds the
\* new configuration, device 2 the old one
C37_Witness ==
    /\ op = "init"
    /\ result = "ResetTimeout"
    /\ N > 2
    /\ HasEvent(1) /\ ~ HasEvent(2)
    /\ ~ config[0].temp_en /\ config[0].clkout_en
    /\ ~ config[1].temp_en
    /\ config[2].temp_en /\ config[2].adc_freq = "KHz2"

\* The Status0 reads of all devices
AllPolls == {i \in 1 .. Len(trace) : \E d \in Dev : IsPoll(i, d)}

\* The largest number of transfers of an operation on N devices: init has
\* up to 5 polls, 4 transfers of the checked writes and a Tempos read per
\* device, then sync and lock; adjust_sync has unlock, snap, lock, a burst
\* read per device and two Counter writes per adjusted device
MaxTransfers(name) ==
    CASE name = "init"                -> 10 * N + 2
      [] name = "hard_reset"          -> 1
      [] name = "soft_reset"          -> N + 1
      [] name = "powerdown"           -> N + 2
      [] name = "wakeup"              -> N + 2
      [] name = "adjust_sync"         -> 3 * N + 1
      [] name = "get_raw_measurement" -> N
      [] name = "get_measurement"     -> N
      [] OTHER                        -> 0

\* C38: every operation of the coordinator terminates, for every N and
\* every sequence of answers of the bus, when each call of the bus, the
\* pins and the delay source returns.  The only loop that depends on the
\* answers is the reset poll: init makes at most 5 Status0 reads per
\* device, at most 5 N in all, and the transfers of every operation are
\* bounded by a function of N.
C38_Terminates ==
    /\ (result = "pending") ~> (result # "pending")
    /\ [](/\ \A d \in Dev : Cardinality(PollsUpTo(d, Len(trace))) <= 5
          /\ Cardinality(AllPolls) <= 5 * N
          /\ AllPolls # {} => op = "init"
          /\ Len(Transfers) <= MaxTransfers(op))

\* init has made five Status0 reads for a device and has returned
C38_Witness ==
    /\ op = "init"
    /\ result = "ResetTimeout"
    /\ N > 2
    /\ Cardinality(PollsUpTo(2, Len(trace))) = 5
    /\ Cardinality(AllPolls) = 7
    /\ Len(Transfers) = 16

\* The CS lines that are low just before event i; all are high when the
\* operation is entered
LowBefore(i) == IF i = 1 THEN {} ELSE trace[i - 1].sel

\* C39: starting with all CS lines high, whenever an operation has
\* returned Ok every CS line is high: the operation has raised every line
\* it lowered.  On each pin the transitions alternate strictly, a line is
\* lowered only when high and raised only when low, and at the return they
\* are balanced.
C39_CsBalanced ==
    /\ result \in {"none", "Ok"} => Selected(cs) = {}
    /\ \A i \in 1 .. Len(trace) :
           /\ trace[i].e = "low" =>
                  /\ trace[i].d \notin LowBefore(i)
                  /\ trace[i].sel = LowBefore(i) \cup {trace[i].d}
           /\ trace[i].e = "high" =>
                  /\ trace[i].d \in LowBefore(i)
                  /\ trace[i].sel = LowBefore(i) \ {trace[i].d}
           /\ trace[i].e \in {"transfer", "delay"} => trace[i].sel = LowBefore(i)
    /\ result = "Ok" =>
           \A d \in Dev : PinEvents("low", d) = PinEvents("high", d)

C39_Witness ==
    /\ Done("init")
    /\ N > 2
    /\ Selected(cs) = {}
    /\ PinEvents("low", 2) = 7
    /\ PinEvents("high", 2) = 7
    /\ PinEvents("low", 0) = 8

====
